---- MODULE Spec2Model ----
(***************************************************************************)
(* Model of the pychuck live-coding control plane:                          *)
(*   - cli/commands.py   CommandExecutor (spork, remove, replace, ...)      *)
(*   - cli/session.py    REPLSession (registry of shreds)                   *)
(*   - tui/session.py    ChuckSession (registry with optional Project)      *)
(*   - tui/project.py    ProjectVersion / Project (versioned snapshots)     *)
(*   - tui/editor.py     ChuckEditor F5 / F6 key bindings                   *)
(* The audio VM (the compiled ChucK binding) is a collaborator whose        *)
(* primitives are modelled from its documented contract and the tests.      *)
(* Strings that the code takes apart (file names) are sequences of          *)
(* one-character strings.                                                   *)
(***************************************************************************)
EXTENDS Integers, Sequences, FiniteSets, TLC

(***************************************************************************)
(* Bounds of the model                                                      *)
(***************************************************************************)
MaxLen == 4
MaxSid == 10
MaxRepl == 2
MaxId == 3
MaxCount == 2
MaxNow == 1
MaxProjSid == 2
MaxOps == 5
MaxCmds == 4
MaxTabs == 2
MaxToks == 3
MaxVal == 5
MaxGets == 2
MaxSets == 1
MaxFiles == 2
MaxCalls == 2

None == -1

Alphabet == {"a", "-", ".", "1"}
Digits == <<"0", "1", "2", "3", "4", "5", "6", "7", "8", "9">>

(***************************************************************************)
(* String helpers (Python str semantics on sequences of characters)         *)
(***************************************************************************)
RECURSIVE StrsUpTo(_)
StrsUpTo(n) ==
  IF n = 0 THEN {<<>>}
  ELSE LET prev == StrsUpTo(n - 1)
       IN prev \cup {Append(s, c) : s \in {t \in prev : Len(t) = n - 1}, c \in Alphabet}

\* f"{n}" for a non-negative int
RECURSIVE IntToStr(_)
IntToStr(n) ==
  IF n < 10 THEN <<Digits[n + 1]>>
  ELSE Append(IntToStr(n \div 10), Digits[(n % 10) + 1])

DigitVal(c) == CHOOSE d \in 0..9 : Digits[d + 1] = c

IsDigit(c) == \E d \in 1..10 : Digits[d] = c

\* int(s) raises ValueError unless s is a non-empty run of digits
IsInt(s) == Len(s) > 0 /\ \A i \in 1..Len(s) : IsDigit(s[i])

RECURSIVE StrToInt(_)
StrToInt(s) ==
  IF Len(s) = 0 THEN 0
  ELSE StrToInt(SubSeq(s, 1, Len(s) - 1)) * 10 + DigitVal(s[Len(s)])

HasChar(s, c) == \E i \in 1..Len(s) : s[i] = c

LastIndexOf(s, c) == CHOOSE i \in 1..Len(s) : s[i] = c /\ \A j \in (i + 1)..Len(s) : s[j] # c

\* s.rsplit('.', 1) if '.' in s else (s, 'ck')
SplitExt(s) ==
  IF HasChar(s, ".")
  THEN LET i == LastIndexOf(s, ".")
       IN <<SubSeq(s, 1, i - 1), SubSeq(s, i + 1, Len(s))>>
  ELSE <<s, <<"c", "k">>>>

\* s.split('-')
RECURSIVE SplitDash(_)
SplitDash(s) ==
  IF ~HasChar(s, "-") THEN <<s>>
  ELSE LET i == LastIndexOf(s, "-")
       IN Append(SplitDash(SubSeq(s, 1, i - 1)), SubSeq(s, i + 1, Len(s)))

(***************************************************************************)
(* tui/project.py: ProjectVersion                                           *)
(***************************************************************************)
ProjectVersion(base_name, shred_id, replace_version) ==
  [base_name |-> base_name, shred_id |-> shred_id, replace_version |-> replace_version]

\* variant: the replace index is left out of the name
filename_no_replace(v) ==
  LET sp == SplitExt(v.base_name)
  IN IF v.shred_id = None
     THEN sp[1] \o <<".">> \o sp[2]
     ELSE sp[1] \o <<"-">> \o IntToStr(v.shred_id) \o <<".">> \o sp[2]

filename(v) ==
  LET sp == SplitExt(v.base_name)
      name == sp[1]
      ext == sp[2]
  IN IF v.shred_id = None
     THEN name \o <<".">> \o ext
     ELSE IF v.replace_version = None
          THEN name \o <<"-">> \o IntToStr(v.shred_id) \o <<".">> \o ext
          ELSE name \o <<"-">> \o IntToStr(v.shred_id) \o <<"-">>
                    \o IntToStr(v.replace_version) \o <<".">> \o ext

\* variant: the replace index is not carried over from the current version
next_replace_first(v) == ProjectVersion(v.base_name, v.shred_id, 1)

next_replace(v) ==
  LET next_ver == IF v.replace_version = None THEN 1 ELSE v.replace_version + 1
  IN ProjectVersion(v.base_name, v.shred_id, next_ver)

from_filename(f) ==
  LET sp == SplitExt(f)
      name == sp[1]
      ext == sp[2]
      parts == SplitDash(name)
  IN IF Len(parts) = 1
     THEN ProjectVersion(parts[1] \o <<".">> \o ext, None, None)
     ELSE IF Len(parts) = 2
          THEN IF IsInt(parts[2])
               THEN ProjectVersion(parts[1] \o <<".">> \o ext, StrToInt(parts[2]), None)
               ELSE ProjectVersion(name \o <<".">> \o ext, None, None)
          ELSE IF IsInt(parts[2]) /\ IsInt(parts[3])
               THEN ProjectVersion(parts[1] \o <<".">> \o ext,
                                   StrToInt(parts[2]), StrToInt(parts[3]))
               ELSE ProjectVersion(name \o <<".">> \o ext, None, None)

(***************************************************************************)
(* tui/parser.py: CommandParser                                             *)
(* Command lines are single-line texts over letters, digits and the         *)
(* punctuation below; the regular expressions are matched as re.match does, *)
(* greedy quantifiers giving back characters when the rest fails to match.  *)
(***************************************************************************)
Punct == {" ", ".", "-", "+", "~", "?", ":", "!", "\"", "'", "$", "@", ">", "|", "[", "]", ","}

\* \w: letters, digits and '_'
IsWordChar(c) == c \notin Punct

Drop(s, n) == SubSeq(s, n + 1, Len(s))

StartsWith(s, p) == Len(s) >= Len(p) /\ SubSeq(s, 1, Len(p)) = p

EndsWith(s, p) == Len(s) >= Len(p) /\ SubSeq(s, Len(s) - Len(p) + 1, Len(s)) = p

Largest(S) == CHOOSE x \in S : \A y \in S : y <= x

Smallest(S) == CHOOSE x \in S : \A y \in S : x <= y

\* length of the longest prefix of spaces, word characters, digits
SpaceRun(s) ==
  Largest({n \in 0..Len(s) : \A i \in 1..n : s[i] = " "})

WordRun(s) ==
  Largest({n \in 0..Len(s) : \A i \in 1..n : IsWordChar(s[i])})

DigitRun(s) ==
  Largest({n \in 0..Len(s) : \A i \in 1..n : IsDigit(s[i])})

\* a match object: group(1) and group(2)
NoMatch == [ok |-> FALSE, g1 |-> <<>>, g2 |-> <<>>]

Match(g1, g2) == [ok |-> TRUE, g1 |-> g1, g2 |-> g2]

\* "([^"]+)" and '([^']+)'
IsQuoted(tl, q) ==
  /\ Len(tl) >= 3
  /\ tl[1] = q
  /\ tl[Len(tl)] = q
  /\ \A i \in 2..(Len(tl) - 1) : tl[i] # q

\* the last group of a pattern, up to $:
\*   "ck" (.+\.ck)   "int" (\d+)   "all" all   "any" (.+)
\*   "dq" "([^"]+)"  "sq" '([^']+)'
TailOk(kind, tl) ==
  CASE kind = "ck" -> Len(tl) >= 4 /\ EndsWith(tl, <<".", "c", "k">>)
    [] kind = "int" -> IsInt(tl)
    [] kind = "all" -> tl = <<"a", "l", "l">>
    [] kind = "any" -> Len(tl) >= 1
    [] kind = "dq" -> IsQuoted(tl, "\"")
    [] kind = "sq" -> IsQuoted(tl, "'")

TailGroup(kind, tl) ==
  IF kind \in {"dq", "sq"} THEN SubSeq(tl, 2, Len(tl) - 1) ELSE tl

\* ^kw\s+(tail)$ (minSp = 1) and ^kw\s*(tail)$ (minSp = 0)
re_kw(s, kw, minSp, kind) ==
  IF ~StartsWith(s, kw) THEN NoMatch
  ELSE LET r == Drop(s, Len(kw))
           ks == {k \in minSp..SpaceRun(r) : TailOk(kind, Drop(r, k))}
       IN IF ks = {} THEN NoMatch
          ELSE Match(TailGroup(kind, Drop(r, Largest(ks))), <<>>)

\* ^kw\s+(\d+)\s+(tail)$
re_kw_id(s, kw, kind) ==
  IF ~StartsWith(s, kw) THEN NoMatch
  ELSE LET r == Drop(s, Len(kw))
           r2 == Drop(r, SpaceRun(r))
           d == DigitRun(r2)
           r3 == Drop(r2, d)
           ks == {k \in 1..SpaceRun(r3) : TailOk(kind, Drop(r3, k))}
       IN IF SpaceRun(r) = 0 \/ d = 0 \/ ks = {} THEN NoMatch
          ELSE Match(SubSeq(r2, 1, d), TailGroup(kind, Drop(r3, Largest(ks))))

\* ^lit$
re_lit(s, lit) == IF s = lit THEN Match(<<>>, <<>>) ELSE NoMatch

\* ^pre(\w+)post$
re_word(s, pre, post) ==
  LET mid == SubSeq(s, Len(pre) + 1, Len(s) - Len(post))
  IN IF /\ Len(s) > Len(pre) + Len(post)
        /\ StartsWith(s, pre)
        /\ EndsWith(s, post)
        /\ WordRun(mid) = Len(mid)
     THEN Match(mid, <<>>)
     ELSE NoMatch

\* ^(\w+)::(.+)$
re_set(s) ==
  LET w == WordRun(s)
  IN IF w >= 1 /\ StartsWith(Drop(s, w), <<":", ":">>) /\ Len(s) >= w + 3
     THEN Match(SubSeq(s, 1, w), Drop(s, w + 2))
     ELSE NoMatch

\* s.strip()
Strip(s) ==
  LET a == SpaceRun(s)
      ends == {j \in a..Len(s) : \A i \in (j + 1)..Len(s) : s[i] = " "}
  IN SubSeq(s, a + 1, Smallest(ends))

\* int(s) for stripped s: an optional sign and digits
IsPyInt(s) ==
  IF Len(s) >= 1 /\ s[1] \in {"+", "-"} THEN IsInt(Drop(s, 1)) ELSE IsInt(s)

PyInt(s) ==
  IF s[1] = "-" THEN 0 - StrToInt(Drop(s, 1))
  ELSE IF s[1] = "+" THEN StrToInt(Drop(s, 1)) ELSE StrToInt(s)

\* float(s) for stripped s containing '.': an optional sign, digits around one
\* '.', at least one digit
IsPyFloat(s) ==
  LET u == IF Len(s) >= 1 /\ s[1] \in {"+", "-"} THEN Drop(s, 1) ELSE s
  IN /\ \E i \in 1..Len(u) :
          /\ u[i] = "."
          /\ \A j \in 1..Len(u) : j # i => IsDigit(u[j])
     /\ Len(u) >= 2

\* an int literal of Python source: digits, no leading zero unless all zeros
IsIntLiteral(tl) ==
  IsInt(tl) /\ (tl[1] # "0" \/ \A i \in 1..Len(tl) : tl[i] = "0")

\* ast.literal_eval(s) succeeds on a bracketed text over digits, names, ','
\* and brackets exactly when it is a list display of int literals and lists
\* (with an optional trailing comma), which gives a list, or several of them
\* separated by commas, which gives a tuple; it raises ValueError or
\* SyntaxError otherwise
RECURSIVE IsListLiteral(_), IsElems(_)
IsListLiteral(tl) ==
  /\ Len(tl) >= 2
  /\ tl[1] = "["
  /\ tl[Len(tl)] = "]"
  /\ LET inner == SubSeq(tl, 2, Len(tl) - 1)
     IN \/ inner = <<>>
        \/ IsElems(inner)
        \/ inner[Len(inner)] = "," /\ IsElems(SubSeq(inner, 1, Len(inner) - 1))

IsElems(tl) ==
  \/ IsIntLiteral(tl)
  \/ IsListLiteral(tl)
  \/ \E i \in 2..(Len(tl) - 1) :
       /\ tl[i] = ","
       /\ IsElems(SubSeq(tl, 1, i - 1))
       /\ (IsIntLiteral(Drop(tl, i)) \/ IsListLiteral(Drop(tl, i)))

Value(tag, txt, num) == [tag |-> tag, text |-> txt, num |-> num]

NoValue == Value("none", <<>>, 0)

\* the tag "raise" stands for the exception leaving _parse_value
parse_value(s0) ==
  LET s == Strip(s0)
  IN IF StartsWith(s, <<"[">>) /\ EndsWith(s, <<"]">>)
     THEN IF IsListLiteral(s) THEN Value("list", s, 0)
          ELSE IF IsElems(s) THEN Value("tuple", s, 0) ELSE Value("raise", s, 0)
     ELSE IF StartsWith(s, <<"\"">>) /\ EndsWith(s, <<"\"">>)
          THEN Value("str", SubSeq(s, 2, Len(s) - 1), 0)
          ELSE IF HasChar(s, ".")
               THEN IF IsPyFloat(s) THEN Value("float", s, 0) ELSE Value("str", s, 0)
               ELSE IF IsPyInt(s) THEN Value("int", <<>>, PyInt(s)) ELSE Value("str", s, 0)

\* Command(type, args): args holds at most an id, one text and one value
Command(type, id, arg, value) ==
  [res |-> IF value.tag = "raise" THEN "raised" ELSE "command",
   type |-> type, id |-> id, arg |-> arg, value |-> value]

NoCommand == [res |-> "none", type |-> "", id |-> None, arg |-> <<>>, value |-> NoValue]

NotParsed == [res |-> "unparsed", type |-> "", id |-> None, arg |-> <<>>, value |-> NoValue]


Rule(m, cmd) == [m |-> m, cmd |-> cmd]

\* variant: the signal rule accepts any run of '!' after the name
re_signal_loose(s) ==
  LET w == WordRun(s)
  IN IF w >= 1 /\ Len(s) > w /\ \A i \in (w + 1)..Len(s) : s[i] = "!"
     THEN Match(SubSeq(s, 1, w), <<>>)
     ELSE NoMatch

\* ^(\w+)!$
re_signal(s) == re_word(s, <<>>, <<"!">>)

\* self.patterns, in order, each rule with its match and the Command its
\* handler builds from the match
patterns(s) ==
  LET m1 == re_kw(s, <<"a", "d", "d">>, 1, "ck")
      m2 == re_kw(s, <<"r", "e", "m", "o", "v", "e">>, 1, "all")
      m3 == re_kw(s, <<"r", "e", "m", "o", "v", "e">>, 1, "int")
      m4 == re_kw_id(s, <<"r", "e", "p", "l", "a", "c", "e">>, "ck")
      m5 == re_lit(s, <<"s", "t", "a", "t", "u", "s">>)
      m6 == re_lit(s, <<"t", "i", "m", "e">>)
      m7 == re_kw(s, <<"+">>, 1, "ck")
      m8 == re_kw(s, <<"+">>, 1, "dq")
      m9 == re_kw(s, <<"+">>, 1, "sq")
      m10 == re_kw(s, <<"-">>, 1, "all")
      m11 == re_kw(s, <<"-">>, 0, "int")
      m12 == re_kw_id(s, <<"~">>, "dq")
      m13 == re_lit(s, <<"?">>)
      m14 == re_kw(s, <<"?">>, 1, "int")
      m15 == re_lit(s, <<"?", "g">>)
      m16 == re_lit(s, <<"?", "a">>)
      m17 == re_lit(s, <<".">>)
      m18 == re_set(s)
      m19 == re_word(s, <<>>, <<"?">>)
      m20 == re_word(s, <<>>, <<"!", "!">>)
      m21 == re_signal(s)
      m22 == re_lit(s, <<">">>)
      m23 == re_lit(s, <<"|", "|">>)
      m24 == re_lit(s, <<"X">>)
      m25 == re_lit(s, <<"c", "l", "e", "a", "r">>)
      m26 == re_lit(s, <<"r", "e", "s", "e", "t">>)
      m27 == re_lit(s, <<"c", "l", "s">>)
      m28 == re_kw(s, <<":">>, 1, "ck")
      m29 == re_kw(s, <<"!">>, 1, "dq")
      m30 == re_kw(s, <<"$">>, 1, "any")
      m31 == re_kw(s, <<"e", "d", "i", "t">>, 0, "int")
      m32 == re_lit(s, <<"e", "d", "i", "t">>)
      m33 == re_lit(s, <<"w", "a", "t", "c", "h">>)
      m34 == re_word(s, <<"@">>, <<>>)
  IN << Rule(m1, Command("spork_file", None, m1.g1, NoValue)),
        Rule(m2, Command("remove_all", None, <<>>, NoValue)),
        Rule(m3, Command("remove_shred", StrToInt(m3.g1), <<>>, NoValue)),
        Rule(m4, Command("replace_shred_file", StrToInt(m4.g1), m4.g2, NoValue)),
        Rule(m5, Command("status", None, <<>>, NoValue)),
        Rule(m6, Command("current_time", None, <<>>, NoValue)),
        Rule(m7, Command("spork_file", None, m7.g1, NoValue)),
        Rule(m8, Command("spork_code", None, m8.g1, NoValue)),
        Rule(m9, Command("spork_code", None, m9.g1, NoValue)),
        Rule(m10, Command("remove_all", None, <<>>, NoValue)),
        Rule(m11, Command("remove_shred", StrToInt(m11.g1), <<>>, NoValue)),
        Rule(m12, Command("replace_shred", StrToInt(m12.g1), m12.g2, NoValue)),
        Rule(m13, Command("list_shreds", None, <<>>, NoValue)),
        Rule(m14, Command("shred_info", StrToInt(m14.g1), <<>>, NoValue)),
        Rule(m15, Command("list_globals", None, <<>>, NoValue)),
        Rule(m16, Command("audio_info", None, <<>>, NoValue)),
        Rule(m17, Command("current_time", None, <<>>, NoValue)),
        Rule(m18, Command("set_global", None, m18.g1, parse_value(m18.g2))),
        Rule(m19, Command("get_global", None, m19.g1, NoValue)),
        Rule(m20, Command("broadcast_event", None, m20.g1, NoValue)),
        Rule(m21, Command("signal_event", None, m21.g1, NoValue)),
        Rule(m22, Command("start_audio", None, <<>>, NoValue)),
        Rule(m23, Command("stop_audio", None, <<>>, NoValue)),
        Rule(m24, Command("shutdown_audio", None, <<>>, NoValue)),
        Rule(m25, Command("clear_vm", None, <<>>, NoValue)),
        Rule(m26, Command("reset_id", None, <<>>, NoValue)),
        Rule(m27, Command("clear_screen", None, <<>>, NoValue)),
        Rule(m28, Command("compile_file", None, m28.g1, NoValue)),
        Rule(m29, Command("exec_code", None, m29.g1, NoValue)),
        Rule(m30, Command("shell", None, m30.g1, NoValue)),
        Rule(m31, Command("edit_shred", StrToInt(m31.g1), <<>>, NoValue)),
        Rule(m32, Command("open_editor", None, <<>>, NoValue)),
        Rule(m33, Command("watch", None, <<>>, NoValue)),
        Rule(m34, Command("load_snippet", None, m34.g1, NoValue)) >>

\* the rules that match s
Hits(s) ==
  LET ps == patterns(s)
  IN {i \in 1..Len(ps) : ps[i].m.ok}

\* parse: the handler of the first rule that matches, or None
parse(s) ==
  LET ps == patterns(s)
      hits == {i \in 1..Len(ps) : ps[i].m.ok}
  IN IF hits = {} THEN NoCommand ELSE ps[Smallest(hits)].cmd

\* the _cmd_{type} methods of CommandExecutor
Handlers ==
  {"spork_file", "spork_code", "remove_shred", "remove_all", "replace_shred",
   "list_shreds", "shred_info", "list_globals", "audio_info", "current_time",
   "set_global", "get_global", "signal_event", "broadcast_event", "start_audio",
   "stop_audio", "shutdown_audio", "clear_vm", "reset_id", "clear_screen",
   "compile_file", "exec_code", "edit_shred", "shell", "open_editor", "watch",
   "load_snippet"}

\* CommandExecutor.execute: getattr(self, f'_cmd_{cmd.type}', None)
execute(cmd) == IF cmd.type \in Handlers THEN "handled" ELSE "unknown"

(***************************************************************************)
(* State                                                                    *)
(***************************************************************************)
VARIABLES
  pv,              \* the ProjectVersion under study (file-name specification)
  fname,           \* pv.filename()
  parsed,          \* ProjectVersion.from_filename(fname)
  fname2,          \* parsed.filename()
  npc,             \* position of the file-name round trip
  shred_versions,  \* Project.shred_versions: shred id -> ProjectVersion
  files,           \* the project directory: file name -> content
  projRet,         \* outcome of the last Project call
  replCalls,       \* per shred id: save_on_replace calls since its save_on_spork
  nOps,            \* number of Project calls made so far
  shreds,          \* REPLSession.shreds, a dict in insertion order
  audio_running,   \* REPLSession.audio_running
  vmLive,          \* ids the VM reports as live (get_all_shred_ids)
  vmNextId,        \* the id the VM issues next
  vmNow,           \* chuck.now()
  devOn,           \* the audio device is acquired
  cmdRet,          \* the command just executed, the VM reply and the result
  nCmds,           \* number of commands and VM cycles so far
  issued,          \* ids the VM has issued: ever, and since the last reset-id
  audioOpen,       \* start_audio has succeeded and shutdown_audio has not since
  tabs,            \* ChuckEditor.tabs
  current_tab_index, \* ChuckEditor.current_tab_index (0-based)
  project,         \* ChuckSession.project is set
  edRet,           \* the editor key binding just run and what it did
  text,            \* the line handed to CommandParser.parse
  command,         \* what parse returned for it
  dispatch,        \* what CommandExecutor.execute did with the command
  gets,            \* the get-global requests made, with what was reported
  session,         \* "live" until the front end runs its cleanup
  tdLog,           \* the VM and audio calls made by cleanup
  mtimes,          \* the project directory's file names, oldest modification first
  globals,         \* the VM's global variables and its queue of set/get messages
  run,             \* one call of execute_files: its position and its locals
  app              \* a Textual application: its cleanup flag and the calls made by _cleanup

nameVars == <<pv, fname, parsed, fname2, npc>>

projVars == <<shred_versions, files, projRet, replCalls, nOps, mtimes>>

execVars == <<shreds, audio_running, vmLive, vmNextId, vmNow, devOn, cmdRet, nCmds,
              issued, audioOpen>>

vars == <<pv, fname, parsed, fname2, npc, shred_versions, files, projRet, replCalls, nOps,
          shreds, audio_running, vmLive, vmNextId, vmNow, devOn, cmdRet, nCmds,
          issued, audioOpen, tabs, current_tab_index, project, edRet,
          text, command, dispatch, gets, session, tdLog, mtimes, globals, run, app>>

edVars == <<tabs, current_tab_index, project, edRet>>

sideVars == <<text, command, dispatch, gets, session, tdLog, globals, run, app>>

(***************************************************************************)
(* Global variables of the VM: set and get requests are queued and handled  *)
(* in order during a later processing cycle; a get is answered through its  *)
(* callback                                                                 *)
(***************************************************************************)
\* names a front end may ask for; "gi" and "gf" are declared by running code
GlobalNames == {"gi", "gf", "gu"}

GlobalType(name) ==
  CASE name = "gi" -> "int"
    [] name = "gf" -> "float"
    [] OTHER -> "none"

\* declared globals start at zero; last is the value of the latest set request
GlobalsIdle ==
  [val |-> [n \in {"gi", "gf"} |->
              IF n = "gi" THEN Value("int", <<>>, 0)
              ELSE Value("float", <<"0", ".", "0">>, 0)],
   last |-> [n \in GlobalNames |-> NoValue],
   queue |-> <<>>,
   sets |-> 0]

\* variant: a request stays queued after it was answered
RECURSIVE vm_run_queue_again(_, _, _)
vm_run_queue_again(val, q, g) ==
  IF q = <<>> THEN [val |-> val, gets |-> g]
  ELSE LET m == Head(q)
       IN IF m.op = "set"
          THEN vm_run_queue_again(IF GlobalType(m.name) = m.type
                                  THEN [val EXCEPT ![m.name] = m.value] ELSE val,
                                  Tail(q), g)
          ELSE vm_run_queue_again(val, Tail(q),
                 [g EXCEPT ![m.i] =
                    IF GlobalType(m.name) = m.type
                    THEN [@ EXCEPT !.value = TRUE, !.got = val[m.name],
                                   !.calls = @ + 1]
                    ELSE @])

\* one processing cycle handles the queued messages in order: a set writes a
\* declared global of its type, a get of a declared global of the requested
\* type runs its callback once with the current value; other requests are
\* dropped
RECURSIVE vm_run_queue(_, _, _)
vm_run_queue(val, q, g) ==
  IF q = <<>> THEN [val |-> val, gets |-> g]
  ELSE LET m == Head(q)
       IN IF m.op = "set"
          THEN vm_run_queue(IF GlobalType(m.name) = m.type
                            THEN [val EXCEPT ![m.name] = m.value] ELSE val,
                            Tail(q), g)
          ELSE vm_run_queue(val, Tail(q),
                 [g EXCEPT ![m.i] =
                    IF GlobalType(m.name) = m.type
                    THEN [@ EXCEPT !.pending = FALSE, !.value = TRUE,
                                   !.got = val[m.name], !.calls = @ + 1]
                    ELSE [@ EXCEPT !.pending = FALSE]])

(***************************************************************************)
(* cli/executor.py: execute_files, before it is called                      *)
(***************************************************************************)
RunIdle ==
  [pc |-> "idle", files |-> <<>>, silent |-> FALSE, audio_started |-> FALSE,
   shred_ids |-> <<>>, next |-> 1, failed |-> FALSE, ran |-> FALSE,
   removed |-> <<>>, result |-> "none"]

(***************************************************************************)
(* cli/tui_basic.py and cli/tui_rich.py: the application before any call of *)
(* _cleanup; calls counts the invocations of _cleanup, shutdowns and        *)
(* removeAlls the calls it made of shutdown_audio and remove_all_shreds     *)
(***************************************************************************)
AppIdle == [cleaned_up |-> FALSE, calls |-> 0, shutdowns |-> 0, removeAlls |-> 0,
            exits |-> 0]

\* variant: _cleanup without the test of its flag
App_cleanup_unguarded(a, raised) ==
  [done |-> TRUE, shutdown |-> ~raised,
   app |-> [a EXCEPT !.cleaned_up = TRUE, !.calls = @ + 1, !.shutdowns = @ + 1,
                     !.removeAlls = @ + 1]]

\* _cleanup: returns at once when _cleaned_up is set; otherwise sets it, calls
\* shutdown_audio (an exception is swallowed) and chuck.remove_all_shreds and
\* drops the handles
App_cleanup(a, raised) ==
  IF a.cleaned_up
  THEN [done |-> FALSE, shutdown |-> FALSE, app |-> [a EXCEPT !.calls = @ + 1]]
  ELSE [done |-> TRUE, shutdown |-> ~raised,
        app |-> [a EXCEPT !.cleaned_up = TRUE, !.calls = @ + 1, !.shutdowns = @ + 1,
                          !.removeAlls = @ + 1]]

NoVersion == ProjectVersion(<<>>, None, None)

NoCleanup == [removeAll |-> FALSE, stop |-> FALSE, shutdown |-> FALSE]

SideIdle ==
  /\ text = <<>>
  /\ command = NotParsed
  /\ dispatch = "none"
  /\ gets = <<>>
  /\ session = "live"
  /\ tdLog = NoCleanup
  /\ globals = GlobalsIdle
  /\ run = RunIdle
  /\ app = AppIdle

EdIdle ==
  /\ tabs = <<>>
  /\ current_tab_index = 0
  /\ project = FALSE
  /\ edRet = [op |-> "none", ok |-> FALSE, old |-> None, new |-> None,
              replPath |-> <<>>, io |-> TRUE]

NameIdle ==
  /\ pv = NoVersion
  /\ fname = <<>>
  /\ parsed = NoVersion
  /\ fname2 = <<>>
  /\ npc = "idle"

(***************************************************************************)
(* tui/project.py: Project                                                  *)
(***************************************************************************)
EmptyMap == [x \in {} |-> None]

\* dict assignment d[k] = v
Put(d, k, v) == [x \in (DOMAIN d) \cup {k} |-> IF x = k THEN v ELSE d[x]]

\* Project.__init__: no lineage recorded, nothing written by this session
ProjIdle ==
  /\ shred_versions = EmptyMap
  /\ files = EmptyMap
  /\ projRet = [op |-> "none", sid |-> None, path |-> <<>>, err |-> "none"]
  /\ replCalls = EmptyMap
  /\ nOps = 0
  /\ mtimes = <<>>

\* the modification time of a written file becomes the latest
Touch(mt, path, written) ==
  LET other(f) == f # path
  IN IF written THEN Append(SelectSeq(mt, other), path) ELSE mt

\* filepath.write_text(content): the write either happens or raises
write_text(fl, path, content, ioOk) == IF ioOk THEN Put(fl, path, content) ELSE fl

\* Project.save_on_spork as a function of the project state
save_on_spork(sv, fl, base, content, shred_id, ioOk) ==
  LET version == ProjectVersion(base, shred_id, None)
  IN [sv |-> Put(sv, shred_id, version),
      fl |-> write_text(fl, filename(version), content, ioOk),
      path |-> filename(version),
      err |-> IF ioOk THEN "none" ELSE "io"]

\* variant: an unknown shred id starts a lineage instead of being rejected
save_on_replace_unchecked(sv, fl, shred_id, content, ioOk) ==
  LET current == IF shred_id \in DOMAIN sv THEN sv[shred_id]
                 ELSE ProjectVersion(<<"u", ".", "c", "k">>, shred_id, None)
      next_version == next_replace(current)
  IN [sv |-> Put(sv, shred_id, next_version),
      fl |-> write_text(fl, filename(next_version), content, ioOk),
      path |-> filename(next_version),
      err |-> IF ioOk THEN "none" ELSE "io"]

\* Project.save_on_replace as a function of the project state
save_on_replace(sv, fl, shred_id, content, ioOk) ==
  IF shred_id \notin DOMAIN sv
  THEN [sv |-> sv, fl |-> fl, path |-> <<>>, err |-> "lineage"]
  ELSE LET current == sv[shred_id]
           next_version == next_replace(current)
       IN [sv |-> Put(sv, shred_id, next_version),
           fl |-> write_text(fl, filename(next_version), content, ioOk),
           path |-> filename(next_version),
           err |-> IF ioOk THEN "none" ELSE "io"]

\* the characters of the file names in code-point order
CharOrder == <<"-", ".">> \o Digits \o <<"a", "c", "d", "e", "i", "k", "l", "n", "t", "u">>

Ord(c) == CHOOSE i \in 1..Len(CharOrder) : CharOrder[i] = c

\* a < b for two names, as Path.__lt__ / str.__lt__ compare them
NameLess(a, b) ==
  \E k \in 1..(Len(a) + 1) :
    /\ k <= Len(b)
    /\ \A j \in 1..(k - 1) : a[j] = b[j]
    /\ k <= Len(a) => Ord(a[k]) < Ord(b[k])

\* sorted(S) for a set of names
RECURSIVE SortNames(_)
SortNames(S) ==
  IF S = {} THEN <<>>
  ELSE LET least == CHOOSE a \in S : \A b \in S \ {a} : NameLess(a, b)
       IN <<least>> \o SortNames(S \ {least})

\* Project.list_versions: sorted(self.project_dir.glob("*.ck"))
list_versions(fl) ==
  SortNames({f \in DOMAIN fl : EndsWith(f, <<".", "c", "k">>)})

(***************************************************************************)
(* Python dict: a sequence of entries with distinct keys, insertion order   *)
(***************************************************************************)
Keys(d) == {d[i].id : i \in 1..Len(d)}

Get(d, k) == d[CHOOSE i \in 1..Len(d) : d[i].id = k]

\* d[k] = e : an existing key keeps its position, a new key goes last
DictSet(d, k, e) ==
  IF k \in Keys(d)
  THEN [i \in 1..Len(d) |-> IF d[i].id = k THEN e ELSE d[i]]
  ELSE Append(d, e)

KeepOthers(d, k) ==
  LET keep(e) == e.id # k
  IN SelectSeq(d, keep)

\* d.pop(k)
DictPop(d, k) == KeepOthers(d, k)

(***************************************************************************)
(* cli/session.py: REPLSession                                              *)
(***************************************************************************)
add_shred(d, shred_id, source, shred_type, now) ==
  DictSet(d, shred_id,
          [id |-> shred_id, source |-> source, type |-> shred_type, chuck_time |-> now])

remove_shred(d, shred_id) == IF shred_id \in Keys(d) THEN DictPop(d, shred_id) ELSE d

clear_shreds(d) == <<>>

\* variant: an untracked id has an empty display name
get_shred_name_blank(d, shred_id) ==
  IF shred_id \in Keys(d) THEN Get(d, shred_id).source ELSE <<>>

get_shred_name(d, shred_id) ==
  IF shred_id \in Keys(d) THEN Get(d, shred_id).source
  ELSE <<"shred-">> \o IntToStr(shred_id)

(***************************************************************************)
(* The audio VM: compile / replace / remove / remove_all / clear_vm /       *)
(* reset_shred_id / run (one processing cycle) and the audio device.        *)
(***************************************************************************)
IdSeq(first, n) == [i \in 1..n |-> first + i - 1]

SeqRange(q) == {q[i] : i \in 1..Len(q)}

SetMax(S) == CHOOSE m \in S : \A x \in S : x <= m

\* compile(source) -> (success, [ids])
vm_compile(live, next, ok, n) ==
  IF ok
  THEN [ok |-> TRUE, ids |-> IdSeq(next, n),
        live |-> live \cup SeqRange(IdSeq(next, n)), next |-> next + n]
  ELSE [ok |-> FALSE, ids |-> <<>>, live |-> live, next |-> next]

\* remove(id) -> success, an error for an id the VM does not know
vm_remove(live, id) ==
  IF id \in live
  THEN [ok |-> TRUE, live |-> live \ {id}]
  ELSE [ok |-> FALSE, live |-> live]

\* replace(id, source) -> new_id | failure (a non-positive id, or an error)
vm_replace(live, next, id, outcome) ==
  IF outcome = "ok" /\ id \in live
  THEN [raised |-> FALSE, new_id |-> next, live |-> (live \ {id}) \cup {next}, next |-> next + 1]
  ELSE [raised |-> (outcome = "raise"), new_id |-> 0, live |-> live, next |-> next]

\* remove_all() -> (), clear_vm() -> ()
vm_remove_all(live) == {}

\* variant: the counter restarts at 1 whatever is live
vm_reset_id_one(live) == 1

\* reset_shred_id(): the next id follows the highest live id (1 on an empty VM)
vm_reset_id(live) == IF live = {} THEN 1 ELSE SetMax(live) + 1

(***************************************************************************)
(* cli/commands.py: CommandExecutor handlers, as functions of the session   *)
(* registry and of the reply of the VM primitive they invoke                *)
(***************************************************************************)
\* what a handler prints: the kind of line, the shred ids it names and, for
\* a listing, its rows
Out(kind, ids, rows) == [kind |-> kind, ids |-> ids, rows |-> rows]

NoOut == Out("none", {}, {})

\* os.path.abspath(path)
abspath(path) == <<"/cwd/">> \o path

RECURSIVE AddAll(_, _, _, _, _)
AddAll(d, ids, source, shred_type, now) ==
  IF Len(ids) = 0 THEN d
  ELSE AddAll(add_shred(d, Head(ids), source, shred_type, now),
              Tail(ids), source, shred_type, now)

cmd_spork_file(d, r, path, now) ==
  IF r.ok
  THEN [shreds |-> AddAll(d, r.ids, abspath(path), "file", now), err |-> FALSE]
  ELSE [shreds |-> d, err |-> TRUE]

\* variant: only the first returned id is registered
cmd_spork_code_first(d, r, code, now) ==
  IF r.ok
  THEN [shreds |-> add_shred(d, Head(r.ids), code, "code", now), err |-> FALSE]
  ELSE [shreds |-> d, err |-> TRUE]

cmd_spork_code(d, r, code, now) ==
  IF r.ok
  THEN [shreds |-> AddAll(d, r.ids, code, "code", now), err |-> FALSE]
  ELSE [shreds |-> d, err |-> TRUE]

\* variant: the registry entry is dropped before the VM has answered
cmd_remove_shred_optimistic(d, r, sid) ==
  [shreds |-> remove_shred(d, sid), err |-> ~r.ok]

cmd_remove_shred(d, r, sid) ==
  IF r.ok
  THEN [shreds |-> remove_shred(d, sid), err |-> FALSE]
  ELSE [shreds |-> d, err |-> TRUE]

\* variant: the VM is cleared but session.clear_shreds() is not called
cmd_remove_all_vm_only(d) == [shreds |-> d, err |-> FALSE]

cmd_remove_all(d) == [shreds |-> clear_shreds(d), err |-> FALSE]

\* variant: the new record is added without removing the old one
cmd_replace_shred_keep_old(d, r, old, code, now) ==
  IF r.raised THEN [shreds |-> d, err |-> TRUE]
  ELSE IF r.new_id > 0
       THEN [shreds |-> add_shred(d, r.new_id, code, "code", now), err |-> FALSE]
       ELSE [shreds |-> d, err |-> TRUE]

\* variant: the old record is dropped although the VM refused the replace
cmd_replace_shred_drop_on_fail(d, r, old, code, now) ==
  IF r.raised THEN [shreds |-> d, err |-> TRUE]
  ELSE IF r.new_id > 0
       THEN [shreds |-> add_shred(remove_shred(d, old), r.new_id, code, "code", now),
             err |-> FALSE]
       ELSE [shreds |-> remove_shred(d, old), err |-> TRUE]

cmd_replace_shred(d, r, old, code, now) ==
  IF r.raised THEN [shreds |-> d, err |-> TRUE]
  ELSE IF r.new_id > 0
       THEN [shreds |-> add_shred(remove_shred(d, old), r.new_id, code, "code", now),
             err |-> FALSE]
       ELSE [shreds |-> d, err |-> TRUE]

\* variant: the VM is cleared and the registry is kept
cmd_clear_vm_keep(d) == [shreds |-> d, err |-> FALSE]

cmd_clear_vm(d) == [shreds |-> clear_shreds(d), err |-> FALSE]

cmd_reset_id(d) == [shreds |-> d, err |-> FALSE]

\* start_audio / stop_audio / shutdown_audio: the flag is written only when
\* the call did not raise
cmd_start_audio(flag, raised) == IF raised THEN [audio |-> flag, err |-> TRUE]
                                 ELSE [audio |-> TRUE, err |-> FALSE]

\* variant: stopping is refused when the session has no audio running
cmd_stop_audio_strict(flag, raised) ==
  IF raised \/ ~flag THEN [audio |-> flag, err |-> TRUE]
  ELSE [audio |-> FALSE, err |-> FALSE]

cmd_stop_audio(flag, raised) == IF raised THEN [audio |-> flag, err |-> TRUE]
                                ELSE [audio |-> FALSE, err |-> FALSE]

\* variant: the flag is cleared whether or not shutdown_audio raised
cmd_shutdown_audio_always(flag, raised) == [audio |-> FALSE, err |-> raised]

cmd_shutdown_audio(flag, raised) == IF raised THEN [audio |-> flag, err |-> TRUE]
                                    ELSE [audio |-> FALSE, err |-> FALSE]

\* tui_rich.py action_toggle_audio: stop_audio when the application's flag is
\* set, start_audio otherwise; the application's flag and the session's are
\* written together (and copied from the session after every audio command)
action_toggle_audio(flag, raised) ==
  IF raised THEN [audio |-> flag, err |-> TRUE]
  ELSE [audio |-> ~flag, err |-> FALSE]

(***************************************************************************)
(* Executor specification: commands issued one at a time by the control     *)
(* thread, interleaved with VM processing cycles                            *)
(***************************************************************************)
\* compile_file(path, count): a count below 1 is rejected with ValueError
\* before anything is compiled
vm_compile_count(count, ok) ==
  IF count < 1 THEN "raise" ELSE IF ok THEN "ok" ELSE "fail"

\* _cmd_compile_file: compile_file(path, count=0); the outcome is printed,
\* nothing is returned, an exception is not caught
cmd_compile_file(reply) ==
  [raised |-> (reply = "raise"),
   out |-> CASE reply = "ok" -> Out("info", {}, {})
             [] reply = "fail" -> Out("error", {}, {})
             [] OTHER -> NoOut]

\* _cmd_shred_info: the record of a live shred is printed; for any other id
\* get_shred_info raises and "Error: ..." is printed; nothing is returned
cmd_shred_info(live, sid) ==
  IF sid \in live THEN Out("info", {sid}, {}) ELSE Out("error", {}, {})

\* _cmd_list_shreds: one row per id the VM reports, with its display name
cmd_list_shreds(d, live) ==
  IF live = {} THEN Out("info", {}, {})
  ELSE Out("table", live, {<<sid, get_shred_name(d, sid)>> : sid \in live})

\* _cmd_get_global: get_global_int, on an exception get_global_float, on an
\* exception get_global_string; raises is the number of calls that raise.
\* found[0] is still False when the calls return, the callbacks running only
\* in a VM processing cycle
cmd_get_global(name, raises) ==
  LET queued == CASE raises = 0 -> "int"
                  [] raises = 1 -> "float"
                  [] raises = 2 -> "string"
                  [] OTHER -> "none"
      found == FALSE
  IN [name |-> name, queued |-> queued, pending |-> (queued # "none"),
      notFound |-> ~found, value |-> found, got |-> NoValue, calls |-> 0,
      want |-> NoValue]

\* _cmd_set_global: the setter is chosen by the Python type of the value; a
\* list goes to an array setter when its elements are all int or all float,
\* any other value is passed to no setter
cmd_set_global(name, value) ==
  LET type == CASE value.tag = "int" -> "int"
                [] value.tag = "float" -> "float"
                [] value.tag = "str" -> "string"
                [] value.tag = "list" /\ ~HasChar(SubSeq(value.text, 2, Len(value.text)), "[")
                     -> "int_array"
                [] OTHER -> "none"
  IN [sent |-> (type # "none"),
      msg |-> [op |-> "set", name |-> name, type |-> type, value |-> value, i |-> 0]]

Paths == {<<"f.ck">>}
Codes == {<<"c1">>, <<"c2">>}
CmdIds == 1..MaxId

\* err: execute() returned an error line; raised: an exception left execute()
Ret(cmd, id, src, vmFail, ids, err) ==
  [cmd |-> cmd, id |-> id, src |-> src, vmFail |-> vmFail, ids |-> ids, err |-> err,
   again |-> (cmdRet.cmd = cmd), raised |-> FALSE, out |-> NoOut]

\* the control thread handles one command (or the VM runs one cycle) at a time
Step ==
  /\ session = "live"
  /\ nCmds < MaxCmds
  /\ nCmds' = nCmds + 1

ExecIdle ==
  /\ shreds = <<>>
  /\ audio_running = FALSE
  /\ vmLive = {}
  /\ vmNextId = 1
  /\ vmNow = 0
  /\ devOn = FALSE
  /\ cmdRet = [cmd |-> "none", id |-> None, src |-> <<>>, vmFail |-> FALSE,
               ids |-> <<>>, err |-> FALSE, again |-> FALSE, raised |-> FALSE,
               out |-> NoOut]
  /\ nCmds = 0
  /\ issued = [ever |-> {}, fresh |-> {}]
  /\ audioOpen = FALSE

\* the ids of a VM reply are recorded as issued
Issue(ids) == [ever |-> issued.ever \cup ids, fresh |-> issued.fresh \cup ids]

SporkFile ==
  /\ Step
  /\ UNCHANGED <<nameVars, projVars, edVars, sideVars>>
  /\ \E path \in Paths, ok \in BOOLEAN, n \in 1..MaxCount :
       LET r == vm_compile(vmLive, vmNextId, ok, n)
           h == cmd_spork_file(shreds, r, path, vmNow)
       IN /\ ok => vmNextId + n - 1 <= MaxId
          /\ vmLive' = r.live
          /\ vmNextId' = r.next
          /\ shreds' = h.shreds
          /\ cmdRet' = Ret("spork_file", None, abspath(path), ~r.ok, r.ids, h.err)
          /\ issued' = Issue(SeqRange(r.ids))
          /\ UNCHANGED <<audio_running, vmNow, devOn, audioOpen>>

SporkCode ==
  /\ Step
  /\ UNCHANGED <<nameVars, projVars, edVars, sideVars>>
  /\ \E code \in Codes, ok \in BOOLEAN, n \in 1..MaxCount :
       LET r == vm_compile(vmLive, vmNextId, ok, n)
           h == cmd_spork_code(shreds, r, code, vmNow)
       IN /\ ok => vmNextId + n - 1 <= MaxId
          /\ vmLive' = r.live
          /\ vmNextId' = r.next
          /\ shreds' = h.shreds
          /\ cmdRet' = Ret("spork_code", None, code, ~r.ok, r.ids, h.err)
          /\ issued' = Issue(SeqRange(r.ids))
          /\ UNCHANGED <<audio_running, vmNow, devOn, audioOpen>>

RemoveShred ==
  /\ Step
  /\ UNCHANGED <<nameVars, projVars, edVars, sideVars>>
  /\ \E sid \in CmdIds :
       LET r == vm_remove(vmLive, sid)
           h == cmd_remove_shred(shreds, r, sid)
       IN /\ vmLive' = r.live
          /\ shreds' = h.shreds
          /\ cmdRet' = Ret("remove_shred", sid, <<>>, ~r.ok, <<>>, h.err)
          /\ UNCHANGED <<audio_running, vmNextId, vmNow, devOn, issued, audioOpen>>

RemoveAll ==
  /\ Step
  /\ UNCHANGED <<nameVars, projVars, edVars, sideVars>>
  /\ LET h == cmd_remove_all(shreds)
     IN /\ vmLive' = vm_remove_all(vmLive)
        /\ shreds' = h.shreds
        /\ cmdRet' = Ret("remove_all", None, <<>>, FALSE, <<>>, h.err)
        /\ UNCHANGED <<audio_running, vmNextId, vmNow, devOn, issued, audioOpen>>

ReplaceShred ==
  /\ Step
  /\ UNCHANGED <<nameVars, projVars, edVars, sideVars>>
  /\ \E sid \in CmdIds, code \in Codes, outcome \in {"ok", "zero", "raise"} :
       LET r == vm_replace(vmLive, vmNextId, sid, outcome)
           h == cmd_replace_shred(shreds, r, sid, code, vmNow)
       IN /\ (outcome = "ok" /\ sid \in vmLive) => vmNextId <= MaxId
          /\ vmLive' = r.live
          /\ vmNextId' = r.next
          /\ shreds' = h.shreds
          /\ cmdRet' = Ret("replace_shred", sid, code, r.raised \/ r.new_id <= 0,
                           IF r.new_id > 0 THEN <<r.new_id>> ELSE <<>>, h.err)
          /\ issued' = Issue(IF r.new_id > 0 THEN {r.new_id} ELSE {})
          /\ UNCHANGED <<audio_running, vmNow, devOn, audioOpen>>

ClearVm ==
  /\ Step
  /\ UNCHANGED <<nameVars, projVars, edVars, sideVars>>
  /\ LET h == cmd_clear_vm(shreds)
     IN /\ vmLive' = vm_remove_all(vmLive)
        /\ shreds' = h.shreds
        /\ cmdRet' = [Ret("clear_vm", None, <<>>, FALSE, <<>>, h.err)
                        EXCEPT !.out = Out("info", {}, {})]
        /\ UNCHANGED <<audio_running, vmNextId, vmNow, devOn, issued, audioOpen>>

ResetId ==
  /\ Step
  /\ UNCHANGED <<nameVars, projVars, edVars, sideVars>>
  /\ LET h == cmd_reset_id(shreds)
     IN /\ vmNextId' = vm_reset_id(vmLive)
        /\ shreds' = h.shreds
        /\ cmdRet' = [Ret("reset_id", None, <<>>, FALSE, <<>>, h.err)
                        EXCEPT !.out = Out("info", {}, {})]
        /\ issued' = [issued EXCEPT !.fresh = {}]
        /\ UNCHANGED <<audio_running, vmLive, vmNow, devOn, audioOpen>>

StartAudio ==
  /\ Step
  /\ UNCHANGED <<nameVars, projVars, edVars, sideVars>>
  /\ \E raised \in BOOLEAN :
       LET h == cmd_start_audio(audio_running, raised)
       IN /\ devOn' = IF raised THEN devOn ELSE TRUE
          /\ audioOpen' = IF raised THEN audioOpen ELSE TRUE
          /\ audio_running' = h.audio
          /\ cmdRet' = Ret("start_audio", None, <<>>, raised, <<>>, h.err)
          /\ UNCHANGED <<shreds, vmLive, vmNextId, vmNow, issued>>

StopAudio ==
  /\ Step
  /\ UNCHANGED <<nameVars, projVars, edVars, sideVars>>
  /\ \E raised \in BOOLEAN :
       LET h == cmd_stop_audio(audio_running, raised)
       IN /\ raised => devOn
          /\ devOn' = IF raised THEN devOn ELSE FALSE
          /\ audio_running' = h.audio
          /\ cmdRet' = Ret("stop_audio", None, <<>>, raised, <<>>, h.err)
          /\ UNCHANGED <<shreds, vmLive, vmNextId, vmNow, issued, audioOpen>>

ShutdownAudio ==
  /\ Step
  /\ UNCHANGED <<nameVars, projVars, edVars, sideVars>>
  /\ \E raised \in BOOLEAN :
       LET h == cmd_shutdown_audio(audio_running, raised)
       IN /\ raised => devOn
          /\ devOn' = IF raised THEN devOn ELSE FALSE
          /\ audio_running' = h.audio
          /\ cmdRet' = Ret("shutdown_audio", None, <<>>, raised, <<>>, h.err)
          /\ audioOpen' = IF raised THEN audioOpen ELSE FALSE
          /\ UNCHANGED <<shreds, vmLive, vmNextId, vmNow, issued>>

ToggleAudio ==
  /\ Step
  /\ UNCHANGED <<nameVars, projVars, edVars, sideVars>>
  /\ \E raised \in BOOLEAN :
       LET h == action_toggle_audio(audio_running, raised)
       IN /\ (raised /\ audio_running) => devOn
          /\ devOn' = IF raised THEN devOn ELSE ~audio_running
          /\ audioOpen' = IF raised THEN audioOpen ELSE (audioOpen \/ ~audio_running)
          /\ audio_running' = h.audio
          /\ cmdRet' = Ret("toggle_audio", None, <<>>, raised, <<>>, h.err)
          /\ UNCHANGED <<shreds, vmLive, vmNextId, vmNow, issued>>

\* one VM processing cycle: time advances and running shreds may reach
\* the end of their code
VMCycle ==
  /\ Step
  /\ UNCHANGED <<nameVars, projVars, edVars, text, command, dispatch, session, tdLog, run, app>>
  /\ \E done \in SUBSET vmLive :
       /\ vmNow' = IF vmNow < MaxNow THEN vmNow + 1 ELSE vmNow
       /\ vmLive' = vmLive \ done
       /\ LET q == vm_run_queue(globals.val, globals.queue, gets)
          IN /\ gets' = q.gets
             /\ globals' = [globals EXCEPT !.val = q.val, !.queue = <<>>]
       /\ cmdRet' = Ret("vm_cycle", None, <<>>, FALSE, <<>>, FALSE)
       /\ UNCHANGED <<shreds, audio_running, vmNextId, devOn, issued, audioOpen>>

CompileFile ==
  /\ Step
  /\ UNCHANGED <<nameVars, projVars, edVars, sideVars>>
  /\ \E path \in Paths, ok \in BOOLEAN :
       LET h == cmd_compile_file(vm_compile_count(0, ok))
       IN cmdRet' = [Ret("compile_file", None, path, h.raised \/ h.out.kind = "error",
                         <<>>, FALSE)
                     EXCEPT !.raised = h.raised, !.out = h.out]
  /\ UNCHANGED <<shreds, audio_running, vmLive, vmNextId, vmNow, devOn, issued, audioOpen>>

ShredInfo ==
  /\ Step
  /\ UNCHANGED <<nameVars, projVars, edVars, sideVars>>
  /\ \E sid \in CmdIds :
       cmdRet' = [Ret("shred_info", sid, <<>>, sid \notin vmLive, <<>>, FALSE)
                  EXCEPT !.out = cmd_shred_info(vmLive, sid)]
  /\ UNCHANGED <<shreds, audio_running, vmLive, vmNextId, vmNow, devOn, issued, audioOpen>>

ListShreds ==
  /\ Step
  /\ UNCHANGED <<nameVars, projVars, edVars, sideVars>>
  /\ cmdRet' = [Ret("list_shreds", None, <<>>, FALSE, <<>>, FALSE)
                EXCEPT !.out = cmd_list_shreds(shreds, vmLive)]
  /\ UNCHANGED <<shreds, audio_running, vmLive, vmNextId, vmNow, devOn, issued, audioOpen>>

\* a line that is no command but looks like ChucK code is compiled and its
\* shreds are registered
SporkText ==
  /\ Step
  /\ UNCHANGED <<nameVars, projVars, edVars, sideVars>>
  /\ \E code \in Codes, ok \in BOOLEAN, n \in 1..MaxCount :
       LET r == vm_compile(vmLive, vmNextId, ok, n)
       IN /\ ok => vmNextId + n - 1 <= MaxId
          /\ vmLive' = r.live
          /\ vmNextId' = r.next
          /\ shreds' = IF r.ok
                        THEN AddAll(shreds, r.ids, <<"code:">> \o code \o <<"...">>,
                                    "file", vmNow)
                        ELSE shreds
          /\ cmdRet' = [Ret("text", None, code, ~r.ok, r.ids, FALSE)
                          EXCEPT !.out = IF r.ok THEN Out("confirm", SeqRange(r.ids), {})
                                         ELSE Out("error", {}, {})]
          /\ issued' = Issue(SeqRange(r.ids))
          /\ UNCHANGED <<audio_running, vmNow, devOn, audioOpen>>

\* tui/repl.py cleanup: remove_all_shreds, then stop_audio and shutdown_audio
\* if session.audio_running, then the handles are dropped
CleanupTui ==
  /\ Step
  /\ session' = "closed"
  /\ vmLive' = vm_remove_all(vmLive)
  /\ tdLog' = [removeAll |-> TRUE, stop |-> audio_running, shutdown |-> audio_running]
  /\ devOn' = IF audio_running THEN FALSE ELSE devOn
  /\ audioOpen' = IF audio_running THEN FALSE ELSE audioOpen
  /\ cmdRet' = Ret("cleanup", None, <<>>, FALSE, <<>>, FALSE)
  /\ UNCHANGED <<nameVars, projVars, edVars, text, command, dispatch, gets, globals, run, app,
                 shreds, audio_running, vmNextId, vmNow, issued>>

\* cli/repl.py cleanup: shutdown_audio, then remove_all_shreds, then the
\* handles are dropped
CleanupCli ==
  /\ Step
  /\ session' = "closed"
  /\ vmLive' = vm_remove_all(vmLive)
  /\ tdLog' = [removeAll |-> TRUE, stop |-> FALSE, shutdown |-> TRUE]
  /\ devOn' = FALSE
  /\ audioOpen' = FALSE
  /\ cmdRet' = Ret("cleanup", None, <<>>, FALSE, <<>>, FALSE)
  /\ UNCHANGED <<nameVars, projVars, edVars, text, command, dispatch, gets, globals, run, app,
                 shreds, audio_running, vmNextId, vmNow, issued>>

Init ==
  /\ ExecIdle
  /\ NameIdle
  /\ ProjIdle
  /\ EdIdle
  /\ SideIdle

Next ==
  \/ SporkFile
  \/ SporkCode
  \/ RemoveShred
  \/ RemoveAll
  \/ ReplaceShred
  \/ ClearVm
  \/ ResetId
  \/ StartAudio
  \/ StopAudio
  \/ ShutdownAudio
  \/ ToggleAudio
  \/ VMCycle
  \/ SporkText
  \/ CompileFile
  \/ ShredInfo
  \/ ListShreds
  \/ CleanupTui
  \/ CleanupCli

Spec == Init /\ [][Next]_vars

(***************************************************************************)
(* Application specification: a Textual front end running commands through *)
(* its CommandExecutor until action_quit and on_unmount clean up            *)
(***************************************************************************)
\* what one invocation of _cleanup does to the VM, the device and the session
AppCleanupStep(r) ==
  /\ app' = r.app
  /\ session' = IF r.done THEN "closed" ELSE session
  /\ vmLive' = IF r.done THEN vm_remove_all(vmLive) ELSE vmLive
  /\ devOn' = IF r.shutdown THEN FALSE ELSE devOn
  /\ audioOpen' = IF r.shutdown THEN FALSE ELSE audioOpen
  /\ tdLog' = IF r.done THEN [removeAll |-> TRUE, stop |-> FALSE, shutdown |-> TRUE]
              ELSE tdLog

\* action_quit: self._cleanup(); self.exit()
action_quit ==
  /\ app.calls < MaxCalls
  /\ \E raised \in BOOLEAN :
       /\ raised => (devOn /\ ~app.cleaned_up)
       /\ LET r == App_cleanup(app, raised)
          IN AppCleanupStep([r EXCEPT !.app.exits = @ + 1])
  /\ UNCHANGED <<nameVars, projVars, edVars, text, command, dispatch, gets, globals, run,
                 shreds, audio_running, vmNextId, vmNow, cmdRet, nCmds, issued>>

\* on_unmount: self._cleanup()
on_unmount ==
  /\ app.calls < MaxCalls
  /\ \E raised \in BOOLEAN :
       /\ raised => (devOn /\ ~app.cleaned_up)
       /\ AppCleanupStep(App_cleanup(app, raised))
  /\ UNCHANGED <<nameVars, projVars, edVars, text, command, dispatch, gets, globals, run,
                 shreds, audio_running, vmNextId, vmNow, cmdRet, nCmds, issued>>

AppNext ==
  \/ SporkCode
  \/ RemoveShred
  \/ StartAudio
  \/ StopAudio
  \/ ToggleAudio
  \/ VMCycle
  \/ action_quit
  \/ on_unmount

SpecApp == Init /\ [][AppNext]_vars

(***************************************************************************)
(* Global-variable specification: get-global commands and VM cycles         *)
(***************************************************************************)
SetInputs == {Value("int", <<>>, 1), Value("int", <<>>, 2),
              Value("float", <<"1", ".", "5">>, 0),
              Value("list", <<"[", "[", "1", "]", "]">>, 0)}

\* want is the value of the latest set request for the name when no set
\* request for it is still queued
GetGlobal ==
  /\ Step
  /\ Len(gets) < MaxGets
  /\ \E name \in GlobalNames, raises \in 0..3 :
       LET e == cmd_get_global(name, raises)
           setQueued == \E k \in 1..Len(globals.queue) :
                          globals.queue[k].op = "set" /\ globals.queue[k].name = name
           want == IF setQueued THEN NoValue ELSE globals.last[name]
       IN /\ gets' = Append(gets, [e EXCEPT !.want = want])
          /\ globals' = IF e.queued = "none" THEN globals
                         ELSE [globals EXCEPT !.queue =
                                 Append(@, [op |-> "get", name |-> name, type |-> e.queued,
                                            value |-> NoValue, i |-> Len(gets) + 1])]
  /\ cmdRet' = [Ret("get_global", None, <<>>, FALSE, <<>>, FALSE)
                  EXCEPT !.out = Out("error", {}, {})]
  /\ UNCHANGED <<nameVars, projVars, edVars, text, command, dispatch, session, tdLog, run, app,
                 shreds, audio_running, vmLive, vmNextId, vmNow, devOn, issued, audioOpen>>

SetGlobal ==
  /\ Step
  /\ globals.sets < MaxSets
  /\ \E name \in GlobalNames, value \in SetInputs :
       LET h == cmd_set_global(name, value)
       IN globals' = [globals EXCEPT
                        !.queue = IF h.sent THEN Append(@, h.msg) ELSE @,
                        !.last = IF h.sent THEN [@ EXCEPT ![name] = value] ELSE @,
                        !.sets = @ + 1]
  /\ cmdRet' = [Ret("set_global", None, <<>>, FALSE, <<>>, FALSE)
                  EXCEPT !.out = Out("info", {}, {})]
  /\ UNCHANGED <<nameVars, projVars, edVars, text, command, dispatch, session, tdLog, run, app,
                 gets, shreds, audio_running, vmLive, vmNextId, vmNow, devOn, issued,
                 audioOpen>>

GlobNext ==
  \/ GetGlobal
  \/ SetGlobal
  \/ VMCycle

SpecGlobals == Init /\ [][GlobNext]_vars

(***************************************************************************)
(* cli/executor.py: one call execute_files(files, silent=..., duration=...) *)
(* taken statement by statement                                            *)
(***************************************************************************)
\* what a path of the files argument names: nothing, something open() cannot
\* read (a directory), a program the VM rejects, a program the VM accepts
FileKinds == {"missing", "dir", "bad", "ok"}

FileLists == UNION {[1..n -> FileKinds] : n \in 0..MaxFiles}

\* missing_files: the paths for which Path(filepath).exists() is false
IsMissing(kind) == kind = "missing"

missing_files(fs) == SelectSeq(fs, IsMissing)

\* chuck.compile_code(code) returns the pair (success, ids)
CompileReply(r) == [tag |-> "tuple", success |-> r.ok, ids |-> r.ids]

\* Python's v == 0: true of a number equal to zero, false of every tuple
PyEqZero(v) == v.tag = "int" /\ v.num = 0

\* one pass of the loop body of "for filepath in files", lines 86-105:
\* open/read, compile_code, the test shred_id == 0, shred_ids.append
compile_step(kind, r) ==
  IF kind = "dir" THEN [raised |-> TRUE, appended |-> <<>>]
  ELSE IF PyEqZero(CompileReply(r)) THEN [raised |-> TRUE, appended |-> <<>>]
  ELSE [raised |-> FALSE, appended |-> <<CompileReply(r)>>]

ExecFilesInit ==
  /\ ProjIdle
  /\ NameIdle
  /\ ExecIdle
  /\ EdIdle
  /\ text = <<>>
  /\ command = NotParsed
  /\ dispatch = "none"
  /\ gets = <<>>
  /\ session = "live"
  /\ tdLog = NoCleanup
  /\ globals = GlobalsIdle
  /\ \E fs \in FileLists, silent \in BOOLEAN :
       run = [RunIdle EXCEPT !.pc = "validate", !.files = fs, !.silent = silent]
  /\ app = AppIdle

XFrame ==
  UNCHANGED <<app, nameVars, projVars, edVars, text, command, dispatch, gets, session, tdLog,
              globals, shreds, audio_running, vmNow, cmdRet, nCmds, issued>>

\* lines 43-53: every path is tested before anything else is done
XValidate ==
  /\ run.pc = "validate"
  /\ run' = IF missing_files(run.files) # <<>>
            THEN [run EXCEPT !.pc = "done", !.result = "ExecutionError"]
            ELSE [run EXCEPT !.pc = "create"]
  /\ UNCHANGED <<vmLive, vmNextId, devOn, audioOpen>>
  /\ XFrame

\* lines 55-60: ChucK.create(srate, channels), which may raise
XCreate ==
  /\ run.pc = "create"
  /\ \E ok \in BOOLEAN :
       run' = IF ok THEN [run EXCEPT !.pc = "audio"]
              ELSE [run EXCEPT !.pc = "done", !.result = "ExecutionError"]
  /\ UNCHANGED <<vmLive, vmNextId, devOn, audioOpen>>
  /\ XFrame

\* lines 62-71: start_audio unless silent; a failure is a warning only
XStartAudio ==
  /\ run.pc = "audio"
  /\ \E ok \in BOOLEAN :
       LET started == ~run.silent /\ ok
       IN /\ run' = [run EXCEPT !.pc = "compile", !.audio_started = started]
          /\ devOn' = (devOn \/ started)
          /\ audioOpen' = (audioOpen \/ started)
  /\ UNCHANGED <<vmLive, vmNextId>>
  /\ XFrame

\* lines 85-105: the next file is read, compiled and its reply appended; an
\* exception stops audio (if started) and is raised as ExecutionError
XCompile ==
  /\ run.pc = "compile"
  /\ run.next <= Len(run.files)
  /\ LET kind == run.files[run.next]
         r == IF kind = "dir" THEN [ok |-> FALSE, ids |-> <<>>, live |-> vmLive,
                                    next |-> vmNextId]
              ELSE vm_compile(vmLive, vmNextId, kind = "ok", 1)
         h == compile_step(kind, r)
     IN /\ vmLive' = r.live
        /\ vmNextId' = r.next
        /\ run' = IF h.raised
                  THEN [run EXCEPT !.pc = "done", !.result = "ExecutionError",
                                   !.failed = @ \/ (kind = "bad")]
                  ELSE [run EXCEPT !.shred_ids = @ \o h.appended, !.next = @ + 1,
                                   !.failed = @ \/ (kind = "bad")]
        /\ devOn' = IF h.raised /\ run.audio_started THEN FALSE ELSE devOn
  /\ UNCHANGED audioOpen
  /\ XFrame

\* lines 107-122: the wait loop, left when the duration is over or a signal
\* has set shutdown_requested
XRunLoop ==
  /\ run.pc = "compile"
  /\ run.next > Len(run.files)
  /\ run' = [run EXCEPT !.pc = "cleanup", !.ran = TRUE]
  /\ UNCHANGED <<vmLive, vmNextId, devOn, audioOpen>>
  /\ XFrame

\* lines 124-144: chuck.remove_shred(shred_id) for every element of shred_ids
\* (each element is a compile reply, not an id: the call raises and the bare
\* except passes), then stop_audio and shutdown_audio if audio was started;
\* removed lists the arguments chuck.remove_shred was called with
XCleanup ==
  /\ run.pc = "cleanup"
  /\ run' = [run EXCEPT !.pc = "done", !.result = "returned", !.removed = run.shred_ids]
  /\ devOn' = IF run.audio_started THEN FALSE ELSE devOn
  /\ audioOpen' = IF run.audio_started THEN FALSE ELSE audioOpen
  /\ UNCHANGED <<vmLive, vmNextId>>
  /\ XFrame

ExecFilesNext ==
  \/ XValidate
  \/ XCreate
  \/ XStartAudio
  \/ XCompile
  \/ XRunLoop
  \/ XCleanup

SpecExecFiles == ExecFilesInit /\ [][ExecFilesNext]_vars

(***************************************************************************)
(* Project specification: save_on_spork / save_on_replace calls            *)
(***************************************************************************)
ProjBases == {<<"a", ".", "c", "k">>, <<"a", "-", "1">>}
Contents == {<<"c1">>}
ProjSids == 1..MaxProjSid

ProjInit ==
  /\ ProjIdle
  /\ NameIdle
  /\ ExecIdle
  /\ EdIdle
  /\ SideIdle

SaveOnSpork ==
  /\ UNCHANGED <<nameVars, execVars, edVars, sideVars>>
  /\ \E base \in ProjBases, content \in Contents, s \in ProjSids, ioOk \in BOOLEAN :
       LET r == save_on_spork(shred_versions, files, base, content, s, ioOk)
       IN /\ nOps < MaxOps
          /\ nOps' = nOps + 1
          /\ shred_versions' = r.sv
          /\ files' = r.fl
          /\ mtimes' = Touch(mtimes, r.path, r.err = "none")
          /\ projRet' = [op |-> "spork", sid |-> s, path |-> r.path, err |-> r.err]
          /\ replCalls' = Put(replCalls, s, 0)

SaveOnReplace ==
  /\ UNCHANGED <<nameVars, execVars, edVars, sideVars>>
  /\ \E content \in Contents, s \in ProjSids, ioOk \in BOOLEAN :
       LET r == save_on_replace(shred_versions, files, s, content, ioOk)
       IN /\ nOps < MaxOps
          /\ nOps' = nOps + 1
          /\ shred_versions' = r.sv
          /\ files' = r.fl
          /\ mtimes' = Touch(mtimes, r.path, r.err = "none")
          /\ projRet' = [op |-> "replace", sid |-> s, path |-> r.path, err |-> r.err]
          /\ replCalls' = IF s \in DOMAIN replCalls
                          THEN Put(replCalls, s, replCalls[s] + 1)
                          ELSE replCalls

ProjNext ==
  \/ SaveOnSpork
  \/ SaveOnReplace

SpecProject == ProjInit /\ [][ProjNext]_vars

(***************************************************************************)
(* File-name specification: every ProjectVersion the constructor accepts    *)
(* within the bounds, formatted, parsed back and formatted again.           *)
(***************************************************************************)
NameInputs ==
  {ProjectVersion(b, s, r) : b \in StrsUpTo(MaxLen),
                             s \in {None} \cup 0..MaxSid,
                             r \in {None} \cup 1..MaxRepl}

NameInit ==
  /\ ProjIdle
  /\ ExecIdle
  /\ EdIdle
  /\ SideIdle
  /\ pv \in NameInputs
  /\ fname = <<>>
  /\ parsed = NoVersion
  /\ fname2 = <<>>
  /\ npc = "new"

DoFilename ==
  /\ UNCHANGED <<projVars, execVars, edVars, sideVars>>
  /\ /\ npc = "new"
     /\ fname' = filename(pv)
     /\ npc' = "named"
     /\ UNCHANGED <<pv, parsed, fname2>>

DoFromFilename ==
  /\ UNCHANGED <<projVars, execVars, edVars, sideVars>>
  /\ /\ npc = "named"
     /\ parsed' = from_filename(fname)
     /\ npc' = "parsed"
     /\ UNCHANGED <<pv, fname, fname2>>

DoRefilename ==
  /\ UNCHANGED <<projVars, execVars, edVars, sideVars>>
  /\ /\ npc = "parsed"
     /\ fname2' = filename(parsed)
     /\ npc' = "done"
     /\ UNCHANGED <<pv, fname, parsed>>

NameNext ==
  \/ DoFilename
  \/ DoFromFilename
  \/ DoRefilename

SpecName == NameInit /\ [][NameNext]_vars

(***************************************************************************)
(* tui/session.py: ChuckSession (registry with an optional Project)         *)
(***************************************************************************)
\* ChuckSession.add_shred: the record is stored, then the snapshot is saved
\* when a project is attached and the content is not empty; a failed save is
\* only reported as a warning
\* variant: the record is stored only after the snapshot was written
ChuckSession_add_shred_save_first(d, proj, sv, fl, shred_id, name, content, shred_type, now, ioOk) ==
  LET rec == [id |-> shred_id, name |-> name, time |-> now, type |-> shred_type,
              source |-> IF content # <<>> THEN content ELSE name]
      d2 == DictSet(d, shred_id, rec)
  IN IF proj /\ content # <<>>
     THEN LET r == save_on_spork(sv, fl, name, content, shred_id, ioOk)
          IN [shreds |-> IF r.err = "none" THEN d2 ELSE d, sv |-> r.sv, fl |-> r.fl,
              warn |-> (r.err # "none"), path |-> r.path, saved |-> (r.err = "none")]
     ELSE [shreds |-> d2, sv |-> sv, fl |-> fl, warn |-> FALSE,
           path |-> <<>>, saved |-> FALSE]

ChuckSession_add_shred(d, proj, sv, fl, shred_id, name, content, shred_type, now, ioOk) ==
  LET rec == [id |-> shred_id, name |-> name, time |-> now, type |-> shred_type,
              source |-> IF content # <<>> THEN content ELSE name]
      d2 == DictSet(d, shred_id, rec)
  IN IF proj /\ content # <<>>
     THEN LET r == save_on_spork(sv, fl, name, content, shred_id, ioOk)
          IN [shreds |-> d2, sv |-> r.sv, fl |-> r.fl, warn |-> (r.err # "none"),
              path |-> r.path, saved |-> (r.err = "none")]
     ELSE [shreds |-> d2, sv |-> sv, fl |-> fl, warn |-> FALSE,
           path |-> <<>>, saved |-> FALSE]

\* ChuckSession.replace_shred: save the replacement under the given shred id
ChuckSession_replace_shred(proj, sv, fl, shred_id, content, ioOk) ==
  IF proj
  THEN LET r == save_on_replace(sv, fl, shred_id, content, ioOk)
       IN [sv |-> r.sv, fl |-> r.fl, path |-> r.path, warn |-> (r.err # "none"),
           saved |-> (r.err = "none")]
  ELSE [sv |-> sv, fl |-> fl, path |-> <<>>, warn |-> FALSE, saved |-> FALSE]

(***************************************************************************)
(* tui/editor.py: EditorTab and the ChuckEditor key bindings                *)
(***************************************************************************)
NoFile == <<>>
Untitled == <<"u", "n", "t", "i", "t", "l", "e", "d", ".", "c", "k">>
NewFileText == <<"// New ChucK file">>

\* EditorTab.__init__; repl counts the successful F6 since the last F5
EditorTab(file_path, content) ==
  [file_path |-> file_path, modified |-> FALSE, shred_id |-> None,
   content |-> content, repl |-> 0]

\* tab.file_path.name if tab.file_path else "untitled.ck"
TabFilename(tab) == IF tab.file_path # NoFile THEN tab.file_path ELSE Untitled

TabType(tab) == IF tab.file_path # NoFile THEN "file" ELSE "code"

EdFiles == {<<"a", ".", "c", "k">>}
EdContents == {<<>>, <<"c1">>, <<"c2">>}

CurTab == tabs[current_tab_index + 1]

SetCurTab(tab) == [tabs EXCEPT ![current_tab_index + 1] = tab]

\* state when the key bindings become active: run() has opened one tab
EdInit ==
  /\ NameIdle
  /\ ProjIdle
  /\ ExecIdle
  /\ SideIdle
  /\ project \in BOOLEAN
  /\ \E f \in EdFiles \cup {NoFile} :
       tabs = <<EditorTab(f, IF f = NoFile THEN NewFileText ELSE <<"c1">>)>>
  /\ current_tab_index = 0
  /\ edRet = [op |-> "none", ok |-> FALSE, old |-> None, new |-> None,
              replPath |-> <<>>, io |-> TRUE]

\* typing in the buffer: on_text_changed sets modified
EditText ==
  /\ Step
  /\ UNCHANGED <<nameVars, projRet, replCalls, nOps, audio_running, vmNow, devOn, cmdRet, project,
               audioOpen, sideVars>>
  /\ \E c \in EdContents :
       /\ c # CurTab.content
       /\ tabs' = SetCurTab([CurTab EXCEPT !.content = c, !.modified = TRUE])
       /\ edRet' = [op |-> "edit", ok |-> TRUE, old |-> None, new |-> None,
                    replPath |-> <<>>, io |-> TRUE]
       /\ UNCHANGED <<current_tab_index, shreds, shred_versions, files, mtimes, vmLive,
                      vmNextId, issued>>

\* F5 / Ctrl-R
spork_code ==
  /\ Step
  /\ UNCHANGED <<nameVars, projRet, replCalls, nOps, audio_running, vmNow, devOn, cmdRet, project,
               audioOpen, sideVars>>
  /\ \E ok \in BOOLEAN, n \in 1..MaxCount, ioOk \in BOOLEAN :
       LET tab == CurTab
           r == vm_compile(vmLive, vmNextId, ok, n)
       IN /\ ok => vmNextId + n - 1 <= MaxId
          /\ vmLive' = r.live
          /\ vmNextId' = r.next
          /\ issued' = Issue(SeqRange(r.ids))
          /\ IF r.ok /\ Len(r.ids) > 0
             THEN LET shred_id == Head(r.ids)
                      a == ChuckSession_add_shred(shreds, project, shred_versions, files,
                                                  shred_id, TabFilename(tab), tab.content,
                                                  TabType(tab), vmNow, ioOk)
                  IN /\ shreds' = a.shreds
                     /\ shred_versions' = a.sv
                     /\ files' = a.fl
                     /\ mtimes' = Touch(mtimes, a.path, a.saved)
                     /\ tabs' = SetCurTab([tab EXCEPT !.shred_id = shred_id,
                                                      !.modified = FALSE, !.repl = 0])
                     /\ edRet' = [op |-> "f5", ok |-> TRUE, old |-> None, new |-> shred_id,
                                  replPath |-> <<>>, io |-> ~a.warn]
             ELSE /\ UNCHANGED <<shreds, shred_versions, files, mtimes, tabs>>
                  /\ edRet' = [op |-> "f5", ok |-> FALSE, old |-> None, new |-> None,
                               replPath |-> <<>>, io |-> TRUE]
          /\ UNCHANGED current_tab_index

\* F6
replace_shred ==
  /\ Step
  /\ UNCHANGED <<nameVars, projRet, replCalls, nOps, audio_running, vmNow, devOn, cmdRet, project,
               audioOpen, sideVars>>
  /\ \E outcome \in {"ok", "zero", "raise"}, io1 \in BOOLEAN, io2 \in BOOLEAN :
       LET tab == CurTab
       IN IF tab.shred_id = None
          THEN /\ edRet' = [op |-> "f6", ok |-> FALSE, old |-> None, new |-> None,
                            replPath |-> <<>>, io |-> TRUE]
               /\ UNCHANGED <<shreds, shred_versions, files, mtimes, tabs, vmLive, vmNextId,
                              current_tab_index, issued>>
          ELSE LET old_id == tab.shred_id
                   r == vm_replace(vmLive, vmNextId, old_id, outcome)
               IN /\ (outcome = "ok" /\ old_id \in vmLive) => vmNextId <= MaxId
                  /\ vmLive' = r.live
                  /\ vmNextId' = r.next
                  /\ issued' = Issue(IF r.new_id > 0 THEN {r.new_id} ELSE {})
                  /\ IF ~r.raised /\ r.new_id > 0
                     THEN LET p == ChuckSession_replace_shred(project, shred_versions, files,
                                                              old_id, tab.content, io1)
                              a == ChuckSession_add_shred(DictPop(shreds, old_id), project,
                                                          p.sv, p.fl, r.new_id,
                                                          TabFilename(tab), tab.content,
                                                          TabType(tab), vmNow, io2)
                          IN /\ shreds' = a.shreds
                             /\ shred_versions' = a.sv
                             /\ files' = a.fl
                             /\ mtimes' = Touch(Touch(mtimes, p.path, p.saved),
                                                a.path, a.saved)
                             /\ tabs' = SetCurTab([tab EXCEPT !.shred_id = r.new_id,
                                                              !.modified = FALSE,
                                                              !.repl = tab.repl + 1])
                             /\ edRet' = [op |-> "f6", ok |-> TRUE, old |-> old_id,
                                          new |-> r.new_id, replPath |-> p.path,
                                          io |-> ~p.warn /\ ~a.warn]
                     ELSE /\ UNCHANGED <<shreds, shred_versions, files, mtimes, tabs>>
                          /\ edRet' = [op |-> "f6", ok |-> FALSE, old |-> old_id, new |-> None,
                                       replPath |-> <<>>, io |-> TRUE]
                  /\ UNCHANGED current_tab_index

\* Ctrl-T: add_tab()
new_tab ==
  /\ Step
  /\ UNCHANGED <<nameVars, projRet, replCalls, nOps, audio_running, vmNow, devOn, cmdRet, project,
               audioOpen, sideVars>>
  /\ /\ Len(tabs) < MaxTabs
     /\ tabs' = Append(tabs, EditorTab(NoFile, NewFileText))
     /\ current_tab_index' = Len(tabs')  - 1
     /\ edRet' = [op |-> "new_tab", ok |-> TRUE, old |-> None, new |-> None,
                  replPath |-> <<>>, io |-> TRUE]
     /\ UNCHANGED <<shreds, shred_versions, files, mtimes, vmLive, vmNextId, issued>>

\* Ctrl-N
next_tab ==
  /\ Step
  /\ UNCHANGED <<nameVars, projRet, replCalls, nOps, audio_running, vmNow, devOn, cmdRet, project,
               audioOpen, sideVars>>
  /\ /\ current_tab_index' = IF Len(tabs) > 1 THEN (current_tab_index + 1) % Len(tabs)
                             ELSE current_tab_index
     /\ edRet' = [op |-> "next_tab", ok |-> TRUE, old |-> None, new |-> None,
                  replPath |-> <<>>, io |-> TRUE]
     /\ UNCHANGED <<tabs, shreds, shred_versions, files, mtimes, vmLive, vmNextId, issued>>

\* variant: the index is left where it was after a tab is closed
ChuckEditor_close_tab_unclamped(ts, idx) ==
  IF Len(ts) > 1
  THEN [closed |-> TRUE, idx |-> idx,
        tabs |-> SubSeq(ts, 1, idx) \o SubSeq(ts, idx + 2, Len(ts))]
  ELSE [closed |-> FALSE, tabs |-> ts, idx |-> idx]

\* close_tab: tabs.pop(current_tab_index), then the index is clamped to the
\* last tab; nothing is done when one tab is left
ChuckEditor_close_tab(ts, idx) ==
  IF Len(ts) > 1
  THEN LET rest == SubSeq(ts, 1, idx) \o SubSeq(ts, idx + 2, Len(ts))
       IN [closed |-> TRUE, tabs |-> rest,
           idx |-> IF idx < Len(rest) - 1 THEN idx ELSE Len(rest) - 1]
  ELSE [closed |-> FALSE, tabs |-> ts, idx |-> idx]

\* Ctrl-W
close_tab ==
  /\ Step
  /\ UNCHANGED <<nameVars, projRet, replCalls, nOps, audio_running, vmNow, devOn, cmdRet, project,
               audioOpen, sideVars>>
  /\ LET r == ChuckEditor_close_tab(tabs, current_tab_index)
     IN /\ tabs' = r.tabs
        /\ current_tab_index' = r.idx
        /\ edRet' = [op |-> "close_tab", ok |-> r.closed, old |-> current_tab_index,
                     new |-> r.idx, replPath |-> <<>>, io |-> TRUE]
  /\ UNCHANGED <<shreds, shred_versions, files, mtimes, vmLive, vmNextId, issued>>

\* Ctrl-P
prev_tab ==
  /\ Step
  /\ UNCHANGED <<nameVars, projRet, replCalls, nOps, audio_running, vmNow, devOn, cmdRet, project,
               audioOpen, sideVars>>
  /\ /\ current_tab_index' = IF Len(tabs) > 1 THEN (current_tab_index - 1) % Len(tabs)
                             ELSE current_tab_index
     /\ edRet' = [op |-> "prev_tab", ok |-> TRUE, old |-> None, new |-> None,
                  replPath |-> <<>>, io |-> TRUE]
     /\ UNCHANGED <<tabs, shreds, shred_versions, files, mtimes, vmLive, vmNextId, issued>>

EdNext ==
  \/ EditText
  \/ spork_code
  \/ replace_shred
  \/ new_tab
  \/ next_tab
  \/ close_tab
  \/ prev_tab

SpecEditor == EdInit /\ [][EdNext]_vars

(***************************************************************************)
(* Parser specification: a line is parsed, and the command, if any, is      *)
(* handed to CommandExecutor.execute                                        *)
(***************************************************************************)
\* the pieces command lines are put together from
Chunks ==
  {<<"a", "d", "d">>,
   <<"r", "e", "m", "o", "v", "e">>,
   <<"r", "e", "p", "l", "a", "c", "e">>,
   <<"s", "t", "a", "t", "u", "s">>,
   <<"t", "i", "m", "e">>,
   <<"a", "l", "l">>,
   <<" ">>,
   <<"1">>,
   <<"x">>,
   <<"x", ".", "c", "k">>,
   <<"\"", "c", "\"">>,
   <<"+">>,
   <<"-">>,
   <<"~">>,
   <<"?">>,
   <<".">>,
   <<":", ":">>,
   <<"!">>}

RECURSIVE ChunkLines(_)
ChunkLines(n) ==
  IF n = 0 THEN {<<>>}
  ELSE ChunkLines(n - 1) \cup {l \o c : l \in ChunkLines(n - 1), c \in Chunks}

\* longer command lines of every form of the grammar
FixedLines ==
  {<<"r", "e", "p", "l", "a", "c", "e", " ", "1", " ", "x", ".", "c", "k">>,
   <<"~", " ", "1", " ", "x", ".", "c", "k">>,
   <<"~", " ", "1", " ", "\"", "c", "\"">>,
   <<"r", "e", "p", "l", "a", "c", "e", " ", "1", " ", "\"", "c", "\"">>,
   <<"+", " ", "'", "c", "'">>,
   <<"?", "g">>,
   <<"?", "a">>,
   <<">">>,
   <<"|", "|">>,
   <<"X">>,
   <<"c", "l", "e", "a", "r">>,
   <<"r", "e", "s", "e", "t">>,
   <<"c", "l", "s">>,
   <<":", " ", "x", ".", "c", "k">>,
   <<"!", " ", "\"", "c", "\"">>,
   <<"$", " ", "x">>,
   <<"$", " ", " ", "x">>,
   <<"e", "d", "i", "t", " ", "1">>,
   <<"e", "d", "i", "t", "1">>,
   <<"e", "d", "i", "t">>,
   <<"w", "a", "t", "c", "h">>,
   <<"@", "x">>,
   <<"x", ":", ":", "1", ".", "1">>,
   <<"x", "=", ">", "x">>,
   <<"x", ";">>,
   <<"x", "{">>,
   <<"x", "\n", "x">>,
   <<"x", "=", "x">>,
   <<"x", " ", ">", "x">>,
   <<"x", ":", ":", "1", "e", "1">>,
   <<"x", ":", ":", "\"">>,
   <<"x", ":", ":", "\"", "c", "\"">>,
   <<"x", ":", ":", "-", "1">>,
   <<"x", ":", ":", " ", "1">>,
   <<"x", ":", ":", "1", ".", "x">>,
   <<"a", "d", "d", " ", " ", ".", "c", "k">>,
   <<"x", ":", ":", "x", "!">>}

BracketChars == {"[", "]", "1", "x", ","}

RECURSIVE BracketTexts(_)
BracketTexts(n) ==
  IF n = 0 THEN {<<>>}
  ELSE BracketTexts(n - 1) \cup {Append(v, c) : v \in BracketTexts(n - 1), c \in BracketChars}

\* set-global lines x::v
BracketLines == {<<"x", ":", ":">> \o v : v \in BracketTexts(MaxVal) \ {<<>>}}

Texts == (ChunkLines(MaxToks) \ {<<>>}) \cup FixedLines \cup BracketLines

ParseInit ==
  /\ ExecIdle
  /\ NameIdle
  /\ ProjIdle
  /\ EdIdle
  /\ text \in Texts
  /\ command = NotParsed
  /\ dispatch = "none"
  /\ gets = <<>>
  /\ session = "live"
  /\ tdLog = NoCleanup
  /\ globals = GlobalsIdle
  /\ run = RunIdle
  /\ app = AppIdle

\* cmd = self.parser.parse(text)
Parse ==
  /\ command = NotParsed
  /\ command' = parse(text)
  /\ UNCHANGED <<nameVars, projVars, execVars, edVars, text, dispatch, gets, session, tdLog,
               globals, run, app>>

\* if cmd: self.executor.execute(cmd), up to the lookup of the handler
Execute ==
  /\ command.res = "command"
  /\ dispatch = "none"
  /\ dispatch' = execute(command)
  /\ UNCHANGED <<nameVars, projVars, execVars, edVars, text, command, gets, session, tdLog,
               globals, run, app>>

\* sub in s
In(sub, s) == \E i \in 1..(Len(s) - Len(sub) + 1) : SubSeq(s, i, i + Len(sub) - 1) = sub

\* variant: every line that is no command is taken for code
looks_like_code_always(t) == TRUE

\* '\n' in text or '=>' in text or ';' in text or '{' in text
looks_like_code(t) ==
  In(<<"\n">>, t) \/ In(<<"=", ">">>, t) \/ In(<<";">>, t) \/ In(<<"{">>, t)

\* else-branch of "if cmd": a line that is no command is compiled when it
\* looks like code, and the ids of a successful compile are registered
Fallback ==
  /\ command.res = "none"
  /\ dispatch = "none"
  /\ IF looks_like_code(text)
     THEN /\ dispatch' = "code"
          /\ \E ok \in BOOLEAN, n \in 1..MaxCount :
               LET r == vm_compile(vmLive, vmNextId, ok, n)
               IN /\ vmLive' = r.live
                  /\ vmNextId' = r.next
                  /\ shreds' = IF r.ok
                                THEN AddAll(shreds, r.ids, <<"code:">> \o text \o <<"...">>,
                                            "file", vmNow)
                                ELSE shreds
                  /\ cmdRet' = [Ret("text", None, text, ~r.ok, r.ids, FALSE)
                                  EXCEPT !.out = IF r.ok
                                                 THEN Out("confirm", SeqRange(r.ids), {})
                                                 ELSE Out("error", {}, {})]
                  /\ issued' = Issue(SeqRange(r.ids))
     ELSE /\ dispatch' = "not code"
          /\ UNCHANGED <<shreds, vmLive, vmNextId, cmdRet, issued>>
  /\ UNCHANGED <<nameVars, projVars, edVars, text, command, gets, session, tdLog, globals,
                 run, app, audio_running, vmNow, devOn, nCmds, audioOpen>>

ParseNext ==
  \/ Parse
  \/ Execute
  \/ Fallback

SpecParser == ParseInit /\ [][ParseNext]_vars

(***************************************************************************)
(* Properties of the executor and the session registry (Spec)               *)
(***************************************************************************)
ExecCmds == {"spork_file", "spork_code", "remove_shred", "replace_shred",
             "remove_all", "clear_vm", "reset_id"}

\* C1: whenever one of the executor commands has just returned without
\* error, every id in the Session Registry is an id the VM reports as live
C1_RegistrySubsetVM ==
  (cmdRet.cmd \in ExecCmds /\ ~cmdRet.err) => Keys(shreds) \subseteq vmLive

\* C2: when the VM primitive behind spork-file, spork-code, remove-shred or
\* replace-shred fails, the command leaves the shreds map and audio_running
\* as they were and returns an error
C2_NoPreMutation ==
  [][(/\ cmdRet'.cmd \in {"spork_file", "spork_code", "remove_shred", "replace_shred"}
      /\ nCmds' = nCmds + 1
      /\ cmdRet'.vmFail)
     => (/\ shreds' = shreds
         /\ audio_running' = audio_running
         /\ cmdRet'.err)]_vars

C2_Witness ==
  /\ cmdRet.cmd = "remove_shred"
  /\ cmdRet.vmFail
  /\ cmdRet.err
  /\ cmdRet.id \in Keys(shreds)
  /\ audio_running

NewIds(d, ids) ==
  LET fresh(i) == i \notin Keys(d)
  IN SelectSeq(ids, fresh)

EntryIds(d) == [i \in 1..Len(d) |-> d[i].id]

\* C3: a successful spork registers exactly one record per returned id, in
\* the order returned, and changes no other record; a failed compile leaves
\* the registry unchanged and returns a compile error
C3_SporkRegisters ==
  [][(cmdRet'.cmd \in {"spork_file", "spork_code"} /\ nCmds' = nCmds + 1)
     => IF cmdRet'.vmFail
        THEN shreds' = shreds /\ cmdRet'.err
        ELSE LET ids == cmdRet'.ids
                 typ == IF cmdRet'.cmd = "spork_file" THEN "file" ELSE "code"
             IN /\ ~cmdRet'.err
                /\ Keys(shreds') = Keys(shreds) \cup SeqRange(ids)
                /\ Len(shreds') = Cardinality(Keys(shreds'))
                /\ \A i \in SeqRange(ids) :
                     Get(shreds', i) = [id |-> i, source |-> cmdRet'.src, type |-> typ,
                                        chuck_time |-> vmNow]
                /\ \A k \in Keys(shreds) \ SeqRange(ids) : Get(shreds', k) = Get(shreds, k)
                /\ EntryIds(shreds') = EntryIds(shreds) \o NewIds(shreds, ids)]_vars

C3_Witness ==
  /\ cmdRet.cmd = "spork_code"
  /\ ~cmdRet.err
  /\ Len(cmdRet.ids) = 2
  /\ Len(shreds) = 3

C5_RemoveAllIdempotent ==
  [][(cmdRet'.cmd = "remove_all" /\ nCmds' = nCmds + 1)
     => /\ shreds' = <<>>
        /\ ~cmdRet'.err
        /\ cmdRet.cmd = "remove_all"
           => /\ shreds' = shreds
              /\ audio_running' = audio_running
              /\ <<vmLive, vmNextId, vmNow, devOn>>' = <<vmLive, vmNextId, vmNow, devOn>>]_vars

C5_Witness ==
  /\ cmdRet.cmd = "remove_all"
  /\ cmdRet.again
  /\ shreds = <<>>
  /\ vmLive = {}
  /\ vmNextId > 1

\* C18 (as stated): the ids returned by a spork are pairwise distinct and
\* none of them was issued earlier in the VM session, whatever commands,
\* reset-id included, came before
C18_IdsNeverReissued ==
  [][(cmdRet'.cmd \in {"spork_file", "spork_code"} /\ nCmds' = nCmds + 1)
     => /\ \A i, j \in 1..Len(cmdRet'.ids) : i # j => cmdRet'.ids[i] # cmdRet'.ids[j]
        /\ SeqRange(cmdRet'.ids) \cap issued.ever = {}]_vars

\* C18 (amended): the ids returned by a spork are pairwise distinct, none of
\* them is live in the VM and none was issued since the last reset-id
C18_IdsUnique ==
  [][(cmdRet'.cmd \in {"spork_file", "spork_code"} /\ nCmds' = nCmds + 1)
     => /\ \A i, j \in 1..Len(cmdRet'.ids) : i # j => cmdRet'.ids[i] # cmdRet'.ids[j]
        /\ SeqRange(cmdRet'.ids) \cap (issued.fresh \cup vmLive) = {}]_vars

C18_Witness ==
  /\ cmdRet.cmd \in {"spork_file", "spork_code"}
  /\ Len(cmdRet.ids) = 2
  /\ issued.fresh # issued.ever
  /\ SeqRange(cmdRet.ids) \subseteq issued.fresh

\* C19: every id in the Session Registry was issued by the VM in reply to a
\* compile or a replace, and an id leaves the registry only by a remove-shred
\* of that id that the VM accepted, a successful replace of that id, a
\* remove-all or a clear-vm
C19_RegistryVMIssued ==
  [][/\ Keys(shreds') \subseteq issued'.ever
     /\ \A id \in Keys(shreds) \ Keys(shreds') :
          \/ cmdRet'.cmd \in {"remove_shred", "replace_shred"}
             /\ cmdRet'.id = id
             /\ ~cmdRet'.vmFail
          \/ cmdRet'.cmd \in {"remove_all", "clear_vm"}]_vars

C19_Witness ==
  /\ cmdRet.cmd = "remove_shred"
  /\ ~cmdRet.vmFail
  /\ cmdRet.id \notin Keys(shreds)
  /\ cmdRet.id \in issued.ever
  /\ Keys(shreds) # {}
  /\ vmLive = {}

\* C20: once the front end has run its cleanup, remove-all-shreds has been
\* sent to the VM and no audio that was started is left without its
\* shutdown_audio, also when stop-audio was the last audio command
C20_TeardownReleases ==
  session = "closed" => (tdLog.removeAll /\ ~audioOpen)

\* C23: a command whose VM operation failed has made execute() return an
\* error line, and a spork or replace that succeeded has printed a
\* confirmation naming every id the VM issued for it
C23_FailuresReported ==
  /\ cmdRet.vmFail => (cmdRet.err /\ ~cmdRet.raised)
  /\ (cmdRet.cmd \in {"spork_file", "spork_code", "replace_shred"} /\ ~cmdRet.vmFail)
     => (cmdRet.out.kind = "confirm" /\ SeqRange(cmdRet.ids) \subseteq cmdRet.out.ids)

\* C28: when the shreds are listed the registry stays as it is, and for every
\* id the display name is the stored source of its record if the id is
\* tracked and "shred-{id}" if it is not; the rows of the listing carry
\* these names
C28_DisplayName ==
  [][(cmdRet'.cmd = "list_shreds" /\ nCmds' = nCmds + 1)
     => /\ shreds' = shreds
        /\ \A id \in CmdIds :
             LET nm == get_shred_name(shreds', id)
             IN /\ \A i \in 1..Len(shreds) : shreds[i].id = id => nm = shreds[i].source
                /\ (\A i \in 1..Len(shreds) : shreds[i].id # id)
                   => nm = <<"shred-">> \o IntToStr(id)
                /\ \A row \in cmdRet'.out.rows : row[1] = id => row[2] = nm]_vars

C28_Witness ==
  /\ cmdRet.cmd = "list_shreds"
  /\ cmdRet.out.rows # {}
  /\ Keys(shreds) # {}
  /\ issued.ever \ Keys(shreds) # {}

\* C29: every id returned by a successful spork is absent from the Session
\* Registry when it is registered, so the registry grows by the number of
\* ids returned
C29_SporkNoOverwrite ==
  [][(/\ cmdRet'.cmd \in {"spork_file", "spork_code"}
      /\ nCmds' = nCmds + 1
      /\ ~cmdRet'.vmFail)
     => /\ SeqRange(cmdRet'.ids) \cap Keys(shreds) = {}
        /\ Len(shreds') = Len(shreds) + Len(cmdRet'.ids)]_vars

\* C21: a stop-audio or shutdown-audio command executed while no audio is
\* running returns no error, leaves audio_running false and leaves the
\* registry, the VM and the audio device as they were; executed again right
\* after itself it changes nothing at all
C21_IdleStopNoOp ==
  [][(cmdRet'.cmd \in {"stop_audio", "shutdown_audio"} /\ nCmds' = nCmds + 1)
     => /\ ~audio_running
           => /\ ~cmdRet'.err
              /\ ~audio_running'
              /\ <<shreds', vmLive', vmNextId', devOn'>> = <<shreds, vmLive, vmNextId, devOn>>
        /\ (cmdRet.cmd = cmdRet'.cmd /\ ~cmdRet.err)
           => /\ ~cmdRet'.err
              /\ <<shreds', audio_running', vmLive', vmNextId', vmNow', devOn', audioOpen'>>
                   = <<shreds, audio_running, vmLive, vmNextId, vmNow, devOn, audioOpen>>]_vars

C21_Witness ==
  /\ cmdRet.cmd = "stop_audio"
  /\ cmdRet.again
  /\ ~cmdRet.err
  /\ ~audio_running
  /\ ~audioOpen
  /\ shreds # <<>>

(***************************************************************************)
(* Properties of get-global (SpecGlobals)                                   *)
(***************************************************************************)
\* C25: a get_global_int request for a declared int global, made when the
\* latest set_global_int of that global has been handled by a VM cycle, has
\* run no callback before the next VM cycle and afterwards has run its
\* callback exactly once, with the value that was set
C25_ReadAfterWrite ==
  \A i \in 1..Len(gets) :
    (gets[i].queued = "int" /\ GlobalType(gets[i].name) = "int" /\ gets[i].want.tag = "int")
    => IF gets[i].pending THEN gets[i].calls = 0
       ELSE gets[i].calls = 1 /\ gets[i].got = gets[i].want

C25_Witness ==
  \E i \in 1..Len(gets) :
    /\ gets[i].queued = "int"
    /\ gets[i].name = "gi"
    /\ gets[i].want = Value("int", <<>>, 2)
    /\ ~gets[i].pending
    /\ gets[i].got = Value("int", <<>>, 2)
    /\ gets[i].calls = 1

\* C17: for a get-global request that the VM has processed, 'not found or
\* wrong type' was reported exactly when no value callback was invoked
C17_GetGlobalReport ==
  \A i \in 1..Len(gets) :
    ~gets[i].pending => (gets[i].notFound <=> ~gets[i].value)

\* C34: a set-global command prints its confirmation "set name = value" only
\* when it has passed the value to one of the VM's set_global primitives; a
\* value that fits none of them is not reported as set
C34_SetConfirmsSent ==
  [][(nCmds' = nCmds + 1 /\ cmdRet'.cmd = "set_global" /\ cmdRet'.out.kind = "info")
     => /\ Len(globals'.queue) = Len(globals.queue) + 1
        /\ globals'.queue[Len(globals'.queue)].op = "set"]_vars

(***************************************************************************)
(* Properties of the versioning store (SpecProject)                         *)
(***************************************************************************)
\* the name "{stem}-{s}.{ext}" (k = 0) or "{stem}-{s}-{k}.{ext}"
VersionName(base, s, k) ==
  LET stem == SplitExt(base)[1]
      ext == SplitExt(base)[2]
  IN stem \o <<"-">> \o IntToStr(s)
          \o (IF k = 0 THEN <<>> ELSE <<"-">> \o IntToStr(k)) \o <<".">> \o ext

\* C6: save_on_spork(base, c, s) returns the path {stem}-{s}.{ext} and the
\* k-th save_on_replace(s, .) after it returns {stem}-{s}-{k}.{ext}, whatever
\* calls for other shred ids come in between
C6_VersionMonotonic ==
  (projRet.op \in {"spork", "replace"} /\ projRet.err = "none")
  => /\ projRet.sid \in DOMAIN replCalls
     /\ projRet.sid \in DOMAIN shred_versions
     /\ projRet.op = "spork" => replCalls[projRet.sid] = 0
     /\ projRet.op = "replace" => replCalls[projRet.sid] >= 1
     /\ projRet.path = VersionName(shred_versions[projRet.sid].base_name, projRet.sid,
                                   replCalls[projRet.sid])

C6_Witness ==
  /\ projRet.op = "replace"
  /\ projRet.err = "none"
  /\ replCalls[projRet.sid] = 2
  /\ \E o \in DOMAIN replCalls : o # projRet.sid /\ replCalls[o] >= 1

\* C7: save_on_replace(s, .) for an s never passed to save_on_spork fails with
\* a lineage-not-found error, writes no file and changes no recorded version
C7_UnknownLineage ==
  [][(/\ projRet'.op = "replace"
      /\ nOps' = nOps + 1
      /\ projRet'.sid \notin DOMAIN replCalls)
     => (/\ projRet'.err = "lineage"
         /\ files' = files
         /\ shred_versions' = shred_versions)]_vars

C7_Witness ==
  /\ projRet.op = "replace"
  /\ projRet.err = "lineage"
  /\ DOMAIN files # {}
  /\ DOMAIN shred_versions # {}

\* C24: list_versions() is the sequence of the project's snapshots ordered by
\* modification time, oldest first
C24_ListVersionsByMtime == list_versions(files) = mtimes

\* C30: a save_on_spork or save_on_replace that writes its file writes a
\* file name that no earlier call of the session has written
C30_WriteOnce ==
  [][(nOps' = nOps + 1 /\ projRet'.err = "none")
     => projRet'.path \notin DOMAIN files]_vars

\* C12: a save_on_spork or save_on_replace call whose file write fails leaves
\* the recorded versions as they were before the call
C12_FailedWriteKeepsCounter ==
  [][(nOps' = nOps + 1 /\ projRet'.err = "io")
     => shred_versions' = shred_versions]_vars

(***************************************************************************)
(* Properties of the editor with a project attached (SpecEditor)            *)
(***************************************************************************)
\* C22: with a project attached, when F5 or F6 got its shred from the VM and
\* a snapshot write of save_on_spork or save_on_replace failed, the key
\* binding still runs to its end: the record of the new shred is in the
\* registry under the tab's file name and the tab points at it
C22_SnapshotFailureNonFatal ==
  [][(/\ edRet'.op \in {"f5", "f6"}
      /\ nCmds' = nCmds + 1
      /\ project
      /\ edRet'.ok
      /\ ~edRet'.io)
     => /\ edRet'.new \in Keys(shreds')
        /\ Get(shreds', edRet'.new).name = TabFilename(tabs'[current_tab_index' + 1])
        /\ tabs'[current_tab_index' + 1].shred_id = edRet'.new
        /\ ~tabs'[current_tab_index' + 1].modified]_vars

C22_Witness ==
  /\ edRet.op = "f6"
  /\ edRet.ok
  /\ ~edRet.io
  /\ project
  /\ edRet.new \in Keys(shreds)
  /\ edRet.old \notin Keys(shreds)
  /\ DOMAIN files = {}

\* C8: with a project attached, after F5 sporks the tab as shred s the
\* snapshot {base}-{s}.ck exists, and the n-th consecutive successful F6 of
\* the tab writes the snapshot {base}-{shred_id}-{n}.ck (all writes
\* succeeding, the buffer not empty)
C8_EditorLayout ==
  (project /\ edRet.ok /\ edRet.io /\ CurTab.content # <<>>)
  => /\ edRet.op = "f5" => VersionName(TabFilename(CurTab), edRet.new, 0) \in DOMAIN files
     /\ edRet.op = "f6" =>
          /\ edRet.replPath \in DOMAIN files
          /\ \E s \in 1..MaxId :
               edRet.replPath = VersionName(TabFilename(CurTab), s, CurTab.repl)

\* C37: once the first tab exists, whatever new-tab, close-tab, next-tab and
\* prev-tab actions are taken, there is at least one tab and
\* 0 <= current_tab_index < len(tabs); close-tab does not remove the last tab
C37_TabIndexInRange ==
  /\ Len(tabs) >= 1
  /\ 0 <= current_tab_index
  /\ current_tab_index < Len(tabs)
  /\ (edRet.op = "close_tab" /\ ~edRet.ok) => Len(tabs) = 1

C37_Witness ==
  /\ edRet.op = "close_tab"
  /\ edRet.ok
  /\ edRet.old = 1
  /\ Len(tabs) = 1
  /\ current_tab_index = 0

(***************************************************************************)
(* Properties of the command parser (SpecParser)                            *)
(***************************************************************************)
\* C13: parse returns a Command or None for every line and never raises,
\* also for a set-global line whose value is a bracketed text that is no
\* literal
C13_ParserTotal == command.res # "raised"

\* C14: a line matches at most one rule of the list, so that the result of
\* parse is the result of whichever rule matches (None when none does); a
\* line name!! is a broadcast-event and a line name! a signal-event
C14_Deterministic ==
  command # NotParsed
  => /\ Cardinality(Hits(text)) <= 1
     /\ Hits(text) = {} => command = NoCommand
     /\ \A i \in Hits(text) : command = patterns(text)[i].cmd
     /\ re_word(text, <<>>, <<"!", "!">>).ok => command.type = "broadcast_event"
     /\ command.type = "signal_event" => ~EndsWith(text, <<"!", "!">>)

C14_Witness ==
  /\ text = <<"x", "!", "!">>
  /\ command.res = "command"
  /\ command.type = "broadcast_event"
  /\ command.arg = <<"x">>

\* C15: a word-style command line (add, remove, replace, status, time: the
\* first six rules) parses to the same Command, kind and arguments, as the
\* line written with its symbol shortcut (+, -, ~, ?, .)
C15_AliasEquivalence ==
  LET symbolForm ==
        CASE StartsWith(text, <<"a", "d", "d">>) -> <<"+">> \o Drop(text, 3)
          [] StartsWith(text, <<"r", "e", "m", "o", "v", "e">>) -> <<"-">> \o Drop(text, 6)
          [] StartsWith(text, <<"r", "e", "p", "l", "a", "c", "e">>) -> <<"~">> \o Drop(text, 7)
          [] text = <<"s", "t", "a", "t", "u", "s">> -> <<"?">>
          [] text = <<"t", "i", "m", "e">> -> <<".">>
          [] OTHER -> text
  IN (command # NotParsed /\ Hits(text) \cap 1..6 # {}) => parse(symbolForm) = command

\* C16: execute finds a handler for every Command that parse returns
C16_ClosedCommandSet == dispatch # "unknown"

\* C33: a line for which parse returned None is compiled as VM source only if
\* it contains a newline, "=>", ";" or "{"; then the ids of a successful
\* compile, all of them, are registered and a failed compile registers
\* nothing; a line with none of the four makes no VM call and leaves the
\* session as it was
C33_ParseMissRouting ==
  [][(command.res = "none" /\ dispatch = "none" /\ dispatch' # "none")
     => IF \/ \E i \in 1..Len(text) : text[i] \in {"\n", ";", "{"}
           \/ \E i \in 1..(Len(text) - 1) : text[i] = "=" /\ text[i + 1] = ">"
        THEN /\ cmdRet'.cmd = "text"
             /\ cmdRet'.src = text
             /\ vmLive' = vmLive \cup SeqRange(cmdRet'.ids)
             /\ Keys(shreds') = Keys(shreds) \cup SeqRange(cmdRet'.ids)
             /\ cmdRet'.vmFail => (cmdRet'.ids = <<>> /\ shreds' = shreds)
             /\ ~cmdRet'.vmFail => Len(cmdRet'.ids) >= 1
        ELSE /\ <<vmLive', vmNextId', vmNow', devOn'>> = <<vmLive, vmNextId, vmNow, devOn>>
             /\ <<shreds', audio_running'>> = <<shreds, audio_running>>
             /\ cmdRet' = cmdRet]_vars

C33_Witness ==
  /\ text = <<"x", "=", ">", "x">>
  /\ command.res = "none"
  /\ dispatch = "code"
  /\ ~cmdRet.vmFail
  /\ Keys(shreds) = 1..MaxCount

\* the texts Python reads as a number: int(s), or float(s) with a fraction
\* or an exponent
IsNumberText(s) ==
  LET u == IF Len(s) >= 1 /\ s[1] \in {"+", "-"} THEN Drop(s, 1) ELSE s
  IN \/ IsPyInt(s)
     \/ IsPyFloat(s)
     \/ \E i \in 2..(Len(u) - 1) :
          /\ u[i] \in {"e", "E"}
          /\ IsInt(SubSeq(u, 1, i - 1)) \/ IsPyFloat(SubSeq(u, 1, i - 1))
          /\ IsPyInt(Drop(u, i))

\* C27: the value of name::value is an array when the text is bracketed, the
\* text without its quotes when it is enclosed in double quotes, otherwise a
\* number whenever the text reads as an int or a float, otherwise the text
\* itself
C27_ValueCoercion ==
  (command.res \in {"command", "raised"} /\ command.type = "set_global")
  => LET s == Strip(re_set(text).g2)
     IN CASE StartsWith(s, <<"[">>) /\ EndsWith(s, <<"]">>) ->
               command.value.tag = "list"
          [] Len(s) >= 2 /\ s[1] = "\"" /\ s[Len(s)] = "\"" ->
               command.value = Value("str", SubSeq(s, 2, Len(s) - 1), 0)
          [] IsNumberText(s) -> command.value.tag \in {"int", "float"}
          [] OTHER -> command.value = Value("str", s, 0)

(***************************************************************************)
(* Properties of the file-name scheme (SpecName)                            *)
(***************************************************************************)
\* C11 (as stated): filename(base, None, None) equals base for every base name
C11_FilenameIsBase ==
  (npc # "new" /\ pv.shred_id = None) => fname = pv.base_name

\* C11 (amended): writing the base name, completed with ".ck" when it has no
\* '.', as {stem}.{ext} with the split at its last '.', filename() is
\* {stem}.{ext}, {stem}-{s}.{ext} or {stem}-{s}-{r}.{ext}
C11_FilenameFormula ==
  npc # "new"
  => LET full == IF HasChar(pv.base_name, ".") THEN pv.base_name
                 ELSE pv.base_name \o <<".", "c", "k">>
         s == <<"-">> \o IntToStr(pv.shred_id)
         suffix == IF pv.shred_id = None THEN <<>>
                   ELSE IF pv.replace_version = None THEN s
                        ELSE s \o <<"-">> \o IntToStr(pv.replace_version)
     IN \E i \in 1..Len(full) :
          /\ full[i] = "."
          /\ \A j \in (i + 1)..Len(full) : full[j] # "."
          /\ fname = SubSeq(full, 1, i - 1) \o suffix \o SubSeq(full, i, Len(full))

C11_Witness ==
  /\ npc = "named"
  /\ pv.base_name = <<"a", "-", "1">>
  /\ pv.shred_id = None
  /\ fname = <<"a", "-", "1", ".", "c", "k">>

\* C9: for every generated file name f, from_filename(f).filename() = f
C9_RoundTrip == npc = "done" => fname2 = fname

\* C10: from_filename(v.filename()) has the base name, shred id and replace
\* version of v
C10_ParseInverse == npc \in {"parsed", "done"} => parsed = pv

\* C31: a start-audio, stop-audio or shutdown-audio command (or the audio
\* toggle) that returns an error leaves session.audio_running as it was; one
\* that returns without error leaves it true exactly when audio was started;
\* no other command changes it. So the flag is true exactly when the last
\* audio command that succeeded was a start
C31_AudioFlagTracks ==
  [][(nCmds' = nCmds + 1)
     => IF cmdRet'.cmd \in {"start_audio", "stop_audio", "shutdown_audio", "toggle_audio"}
        THEN IF cmdRet'.err
             THEN audio_running' = audio_running
             ELSE audio_running' = \/ cmdRet'.cmd = "start_audio"
                                   \/ cmdRet'.cmd = "toggle_audio" /\ ~audio_running
        ELSE audio_running' = audio_running]_vars

C31_Witness ==
  /\ cmdRet.cmd = "shutdown_audio"
  /\ cmdRet.err
  /\ audio_running
  /\ devOn

\* C32: clear-vm leaves the registry empty and audio_running as it was;
\* reset-id leaves the registry and audio_running as they were and, of the VM,
\* changes the id counter only
C32_ClearResetFrame ==
  [][(nCmds' = nCmds + 1)
     => /\ cmdRet'.cmd = "clear_vm"
           => /\ shreds' = <<>>
              /\ audio_running' = audio_running
        /\ cmdRet'.cmd = "reset_id"
           => /\ shreds' = shreds
              /\ audio_running' = audio_running
              /\ <<vmLive', vmNow', devOn'>> = <<vmLive, vmNow, devOn>>
              /\ vmNextId' = vm_reset_id(vmLive)]_vars

C32_Witness ==
  /\ cmdRet.cmd = "reset_id"
  /\ shreds # <<>>
  /\ audio_running
  /\ vmLive = {}
  /\ vmNextId = 1

\* C26: when the VM fails to compile one of the given files, execute_files
\* raises ExecutionError, never enters the run loop, and has stopped audio if
\* it had started it
C26_CompileFailureRaises ==
  (run.pc = "done" /\ run.failed)
  => /\ run.result = "ExecutionError"
     /\ ~run.ran
     /\ run.audio_started => ~devOn

\* C35: when the run loop of execute_files has ended and the call has
\* returned, chuck.remove_shred has been called with the id of every shred
\* that was sporked, and audio, if it was started, has been stopped and shut
\* down
C35_CleanupRemovesShreds ==
  (run.pc = "done" /\ run.ran)
  => /\ \A j \in 1..Len(run.shred_ids) :
          \A id \in SeqRange(run.shred_ids[j].ids) :
            \E k \in 1..Len(run.removed) :
              run.removed[k].tag = "int" /\ run.removed[k].num = id
     /\ run.audio_started => (~devOn /\ ~audioOpen)

\* C36: however often and in whatever order action_quit and on_unmount call
\* _cleanup, shutdown_audio and remove_all_shreds are each called at most
\* once, and a call of _cleanup after the first changes nothing
C36_CleanupOnce ==
  [][(app'.calls = app.calls + 1)
     => /\ app'.shutdowns <= 1
        /\ app'.removeAlls <= 1
        /\ app.cleaned_up
           => /\ <<app'.cleaned_up, app'.shutdowns, app'.removeAlls>>
                   = <<app.cleaned_up, app.shutdowns, app.removeAlls>>
              /\ <<shreds', audio_running', vmLive', vmNextId', vmNow', devOn', audioOpen',
                   session', tdLog'>>
                   = <<shreds, audio_running, vmLive, vmNextId, vmNow, devOn, audioOpen,
                       session, tdLog>>]_vars

C36_Witness ==
  /\ app.calls = 2
  /\ app.exits = 1
  /\ app.shutdowns = 1
  /\ app.removeAlls = 1
  /\ issued.ever # {}
  /\ vmLive = {}
  /\ audio_running
  /\ ~devOn

====
